---- MODULE Spec2Model ----
(***************************************************************************)
(* State-machine model of the SME data-intelligence pipeline:              *)
(*   agents/agent1_ingest.py     CSV ingestion (FIBU / WAWI)                *)
(*   agents/agent2_mapping.py    account -> ESG category mapping            *)
(*   agents/agent3_emissions.py  deterministic emissions calculation        *)
(*   agents/agent4_report.py     ESRS E1 gap audit                          *)
(*   db/database.py              the relational store                       *)
(*                                                                         *)
(* Text is modelled as a sequence of one-character strings, so that        *)
(* lower(), strip(), substring containment and the regular expressions of  *)
(* the source are computed and not assumed.  Money is kept in cents,       *)
(* tonnes CO2e in units of 1e-4 t and quantities in units of 1e-2.         *)
(***************************************************************************)
EXTENDS Integers, Sequences, FiniteSets, Bags, TLC

\* ------------------------------------------------------------------------
\* Bounds of the model
\* ------------------------------------------------------------------------
\* number of rows the file_ingestion_log may hold before ingestion stops
MaxLog == 2
\* number of emissions_calculated entries the audit_log may hold
MaxCalcAudit == 2

\* ------------------------------------------------------------------------
\* Text helpers (Python str methods used by the source)
\* ------------------------------------------------------------------------
UpperChars == <<"A","B","C","D","E","F","G","H","I","J","K","L","M",
                "N","O","P","Q","R","S","T","U","V","W","X","Y","Z">>
LowerChars == <<"a","b","c","d","e","f","g","h","i","j","k","l","m",
                "n","o","p","q","r","s","t","u","v","w","x","y","z">>
Digits == <<"0","1","2","3","4","5","6","7","8","9">>
Whitespace == {" ", "\t"}

LowerChar(c) ==
    IF \E i \in 1..26 : UpperChars[i] = c
    THEN LowerChars[CHOOSE i \in 1..26 : UpperChars[i] = c]
    ELSE c

\* str.lower()
Lower(s) == [i \in 1..Len(s) |-> LowerChar(s[i])]

\* str.strip()
Strip(s) ==
    LET keep == {i \in 1..Len(s) : s[i] \notin Whitespace}
    IN  IF keep = {} THEN <<>>
        ELSE LET lo == CHOOSE i \in keep : \A j \in keep : i <= j
                 hi == CHOOSE i \in keep : \A j \in keep : j <= i
             IN  SubSeq(s, lo, hi)

\* the Python expression  sub in s  for two strings
Contains(sub, s) ==
    \E i \in 0..(Len(s) - Len(sub)) : SubSeq(s, i + 1, i + Len(sub)) = sub

\* the Python expression  c in s  for one character
HasChar(c, s) == \E i \in 1..Len(s) : s[i] = c

\* str.replace(c, "") and str.replace(c, d) for single characters
RemoveChar(s, c) == SelectSeq(s, LAMBDA x : x # c)
ReplaceChar(s, c, d) == [i \in 1..Len(s) |-> IF s[i] = c THEN d ELSE s[i]]

\* str.zfill(2) on a string of one or two characters
Zfill2(s) == IF Len(s) < 2 THEN <<"0">> \o s ELSE s

IsDigit(c) == \E i \in 1..10 : Digits[i] = c
DigitVal(c) == (CHOOSE i \in 1..10 : Digits[i] = c) - 1
AllDigits(s, lo, hi) == hi <= Len(s) /\ \A i \in lo..hi : IsDigit(s[i])

RECURSIVE DigitsVal(_)
DigitsVal(s) ==
    IF s = <<>> THEN 0
    ELSE 10 * DigitsVal(SubSeq(s, 1, Len(s) - 1)) + DigitVal(s[Len(s)])

\* ------------------------------------------------------------------------
\* A cell of the DataFrame that pd.read_csv(..., dtype=str) returns: either
\* a text or the float NaN that pandas puts in place of a missing value.
\* ------------------------------------------------------------------------
NaNCell == [na |-> TRUE, s |-> <<>>]
TextCell(s) == [na |-> FALSE, s |-> s]

\* a cell that holds a number instead of a text
NumCell(v) == [na |-> FALSE, s |-> <<>>, num |-> v]

\* isinstance(x, (int, float)) of a cell that is not NaN
IsNum(cell) == "num" \in DOMAIN cell

\* Python str(x) of a cell: str(float("nan")) is "nan"
PyStr(cell) == IF cell.na THEN <<"n","a","n">> ELSE cell.s

\* ------------------------------------------------------------------------
\* Locale normalization
\* ------------------------------------------------------------------------
None == <<"None">>
SentinelDate == <<"1","9","0","0","-","0","1","-","0","1">>

\* re.match(r"(\d{1,2})\.(\d{1,2})\.(\d{N})", s) for N = yearLen: the groups
\* of the match, or <<>> when the string does not match at its start.
DmyMatch(s, yearLen) ==
    LET dl == IF AllDigits(s, 1, 2) /\ Len(s) >= 3 /\ s[3] = "." THEN 2
              ELSE IF AllDigits(s, 1, 1) /\ Len(s) >= 2 /\ s[2] = "." THEN 1
              ELSE 0
        ms == dl + 2
        ml == IF dl = 0 THEN 0
              ELSE IF AllDigits(s, ms, ms + 1) /\ Len(s) >= ms + 2
                      /\ s[ms + 2] = "." THEN 2
              ELSE IF AllDigits(s, ms, ms) /\ Len(s) >= ms + 1
                      /\ s[ms + 1] = "." THEN 1
              ELSE 0
        ys == ms + ml + 1
    IN  IF dl > 0 /\ ml > 0 /\ AllDigits(s, ys, ys + yearLen - 1)
        THEN << SubSeq(s, 1, dl), SubSeq(s, ms, ms + ml - 1),
                SubSeq(s, ys, ys + yearLen - 1) >>
        ELSE <<>>

\* re.match(r"(\d{4})-(\d{2})-(\d{2})", s)
IsoMatch(s) ==
    /\ AllDigits(s, 1, 4) /\ Len(s) >= 10
    /\ s[5] = "-" /\ AllDigits(s, 6, 7)
    /\ s[8] = "-" /\ AllDigits(s, 9, 10)

parse_austrian_date(cell) ==
    IF cell.na \/ cell.s = <<>> THEN None
    ELSE LET date_str == Strip(cell.s)
             m4 == DmyMatch(date_str, 4)
             m2 == DmyMatch(date_str, 2)
         IN  IF m4 # <<>>
             THEN m4[3] \o <<"-">> \o Zfill2(m4[2]) \o <<"-">> \o Zfill2(m4[1])
             ELSE IF m2 # <<>>
             THEN (IF DigitsVal(m2[3]) < 50 THEN <<"2","0">> ELSE <<"1","9">>)
                  \o m2[3] \o <<"-">> \o Zfill2(m2[2]) \o <<"-">> \o Zfill2(m2[1])
             ELSE IF IsoMatch(date_str) THEN date_str
             ELSE None

\* Python float(s) on a stripped string, in cents.  ok = FALSE stands for
\* ValueError.  Accepted here: an optional sign, digits, at most one ".";
\* fraction digits after the second are dropped by the fixed-point scale.
ParseFloat(s) ==
    LET signed == Len(s) >= 1 /\ s[1] \in {"+", "-"}
        body == IF signed THEN SubSeq(s, 2, Len(s)) ELSE s
        dots == {i \in 1..Len(body) : body[i] = "."}
        dot == IF dots = {} THEN Len(body) + 1 ELSE CHOOSE i \in dots : TRUE
        ip == SubSeq(body, 1, dot - 1)
        fp == SubSeq(body, dot + 1, Len(body))
        wellFormed == /\ Cardinality(dots) <= 1
                      /\ Len(ip) + Len(fp) >= 1
                      /\ \A i \in 1..Len(ip) : IsDigit(ip[i])
                      /\ \A i \in 1..Len(fp) : IsDigit(fp[i])
        frac2 == SubSeq(fp \o <<"0","0">>, 1, 2)
        mag == 100 * DigitsVal(ip) + DigitsVal(frac2)
    IN  IF wellFormed
        THEN [ok |-> TRUE, v |-> IF signed /\ s[1] = "-" THEN 0 - mag ELSE mag]
        ELSE [ok |-> FALSE, v |-> 0]

\* a rule that reads every comma as the decimal point and keeps the dots
DecimalCommaOnly(cell) ==
    IF cell.na THEN 0
    ELSE IF IsNum(cell) THEN cell.num
    ELSE LET s0 == Strip(cell.s)
             f == ParseFloat(ReplaceChar(s0, ",", "."))
         IN  IF s0 = <<>> THEN 0 ELSE IF f.ok THEN f.v ELSE 0

\* the value is in cents; a NaN cell stands for None and for float NaN
parse_austrian_number(cell) ==
    IF cell.na THEN 0
    ELSE IF IsNum(cell) THEN cell.num
    ELSE LET s0 == Strip(cell.s)
             s1 == IF HasChar(",", s0) /\ HasChar(".", s0)
                   THEN ReplaceChar(RemoveChar(s0, "."), ",", ".")
                   ELSE IF HasChar(",", s0) THEN ReplaceChar(s0, ",", ".")
                   ELSE s0
             f == ParseFloat(s1)
         IN  IF s0 = <<>> THEN 0 ELSE IF f.ok THEN f.v ELSE 0

\* ------------------------------------------------------------------------
\* Python None and SQL NULL.  A text is a sequence of one-character strings,
\* so the one-element sequence below differs from every text.
\* ------------------------------------------------------------------------
NULL == "NULL"
Falsy(x) == x = None \/ x = <<>>

\* ------------------------------------------------------------------------
\* Schema resolver
\* ------------------------------------------------------------------------
FIBU_FIELD_VARIANTS ==
    [
      date |->
        << <<"B","u","c","h","u","n","g","s","d","a","t","u","m">>,
           <<"B","u","c","h","D","a","t","u","m">>,
           <<"D","a","t","u","m">>,
           <<"B","e","l","e","g","d","a","t","u","m">> >>,
      account |->
        << <<"K","o","n","t","o">>,
           <<"K","o","n","t","o","N","r">>,
           <<"K","o","n","t","o","-","N","r">>,
           <<"K","o","n","t","o","n","u","m","m","e","r">> >>,
      counter_account |->
        << <<"G","e","g","e","n","k","o","n","t","o">>,
           <<"G","e","g","e","n","K","t","o">>,
           <<"G","e","g","e","n","-","K","o","n","t","o">>,
           <<"G","e","g","e","n","k","o","n","t","o","N","r">> >>,
      amount |->
        << <<"B","e","t","r","a","g">>,
           <<"B","e","t","r","a","g"," ","E","U","R">>,
           <<"B","e","t","r","a","g","E","U","R">>,
           <<"N","e","t","t","o","b","e","t","r","a","g">> >>,
      vat_code |->
        << <<"S","t","e","u","e","r","c","o","d","e">>,
           <<"S","t","C","o","d","e">>,
           <<"U","S","t","-","C","o","d","e">>,
           <<"S","t","e","u","e","r","s","c","h","l","u","e","s","s","e","l">>,
           <<"S","t","e","u","e","r","S","c","h","l","u","e","s","s","e","l">> >>,
      cost_center |->
        << <<"K","o","s","t","e","n","s","t","e","l","l","e">>,
           <<"K","S","t">>,
           <<"K","S","T">>,
           <<"K","o","s","t","e","n","s","t">> >>,
      document_ref |->
        << <<"B","e","l","e","g","n","u","m","m","e","r">>,
           <<"B","e","l","e","g","N","r">>,
           <<"B","e","l","e","g","-","N","r">>,
           <<"B","e","l","N","r">> >>,
      booking_text |->
        << <<"B","u","c","h","u","n","g","s","t","e","x","t">>,
           <<"T","e","x","t">>,
           <<"B","u","c","h","T","e","x","t">>,
           <<"B","e","z","e","i","c","h","n","u","n","g">> >>,
      document_date |->
        << <<"B","e","l","e","g","d","a","t","u","m">>,
           <<"B","e","l","D","a","t","u","m">>,
           <<"B","e","l","e","g","-","D","a","t","u","m">> >>
    ]

WAWI_FIELD_VARIANTS ==
    [
      supplier_id |->
        << <<"L","i","e","f","e","r","a","n","t","e","n","N","r">>,
           <<"L","i","e","f","e","r","a","n","t","-","N","r">>,
           <<"L","f","N","r">>,
           <<"K","r","e","d","i","t","o","r","N","r">> >>,
      name |->
        << <<"N","a","m","e">>,
           <<"F","i","r","m","e","n","n","a","m","e">>,
           <<"F","i","r","m","a">>,
           <<"N","a","m","e","1">>,
           <<"B","e","z","e","i","c","h","n","u","n","g">> >>,
      uid |->
        << <<"U","I","D">>,
           <<"U","I","D","-","N","r">>,
           <<"U","I","D","N","r">>,
           <<"A","T","U">>,
           <<"S","t","e","u","e","r","n","u","m","m","e","r">> >>,
      country |->
        << <<"L","a","n","d">>,
           <<"L","a","e","n","d","e","r","c","o","d","e">>,
           <<"L","a","n","d","C","o","d","e">>,
           <<"I","S","O","-","L","a","n","d">> >>,
      amount |->
        << <<"B","e","t","r","a","g">>,
           <<"U","m","s","a","t","z">>,
           <<"J","a","h","r","e","s","u","m","s","a","t","z">>,
           <<"G","e","s","a","m","t","b","e","t","r","a","g">> >>
    ]

\* df_cols_lower = {c.lower().strip(): c for c in df_columns}: a later
\* column replaces an earlier one under the same key.
DictGet(df_columns, key) ==
    LET hits == {i \in 1..Len(df_columns) : Strip(Lower(df_columns[i])) = key}
    IN  df_columns[CHOOSE i \in hits : \A j \in hits : j <= i]

DictHas(df_columns, key) ==
    \E i \in 1..Len(df_columns) : Strip(Lower(df_columns[i])) = key

\* the first column, in column order, that some variant matches
FirstColumnMatch(df_columns, field_variants) ==
    LET hits == {c \in 1..Len(df_columns) :
                    \E v \in 1..Len(field_variants) :
                        Strip(Lower(df_columns[c])) = Lower(field_variants[v])}
    IN  IF hits = {} THEN None
        ELSE df_columns[CHOOSE c \in hits : \A d \in hits : c <= d]

find_column(df_columns, field_variants) ==
    LET hits == {v \in 1..Len(field_variants) :
                    DictHas(df_columns, Lower(field_variants[v]))}
    IN  IF hits = {} THEN None
        ELSE DictGet(df_columns,
                     Lower(field_variants[CHOOSE v \in hits : \A w \in hits : v <= w]))

fibu_indicators ==
    << <<"k","o","n","t","o">>,
       <<"g","e","g","e","n","k","o","n","t","o">>,
       <<"b","u","c","h","u","n","g","s","d","a","t","u","m">>,
       <<"b","e","t","r","a","g">>,
       <<"b","e","l","e","g","n","u","m","m","e","r">> >>

wawi_indicators ==
    << <<"l","i","e","f","e","r","a","n","t","e","n","n","r">>,
       <<"f","i","r","m","e","n","n","a","m","e">>,
       <<"u","i","d">>,
       <<"u","m","s","a","t","z">>,
       <<"k","r","e","d","i","t","o","r">> >>

Score(indicators, columns) ==
    Cardinality({i \in 1..Len(indicators) :
        \E c \in 1..Len(columns) : Contains(indicators[i], Lower(columns[c]))})

detect_file_type(columns) ==
    IF Score(fibu_indicators, columns) >= 2 THEN "FIBU"
    ELSE IF Score(wawi_indicators, columns) >= 2 THEN "WAWI"
    ELSE "UNKNOWN"

\* ------------------------------------------------------------------------
\* Source files.  A file content is the sequence of its text lines; the
\* store and the folders hold the key of a content in the catalogue below.
\* ------------------------------------------------------------------------
\* three ledger rows, the second with an empty account field, the third a
\* credit of the year before
k_fibu3_lines ==
    << <<"K","o","n","t","o",";","B","e","t","r","a","g",";","B","u","c","h","u","n","g","s","d","a","t","u","m">>,
       <<"4","0","0","0",";","1",".","0","0","0",",","0","0",";","0","5",".","0","3",".","2","0","2","4">>,
       <<";","5","0",",","0","0",";","0","6",".","0","3",".","2","0","2","4">>,
       <<"4","0","0","0",";","-","2","0",",","0","0",";","0","7",".","0","3",".","2","3">> >>

\* a ledger row whose account field is a single blank, a row whose date is
\* already in ISO form and a row whose amount is not a number
k_ws_lines ==
    << <<"K","o","n","t","o",";","B","e","t","r","a","g",";","D","a","t","u","m">>,
       <<" ",";","1","0",",","0","0",";","0","1",".","0","2",".","2","0","2","3">>,
       <<"5","0","0","0",";","3","0",",","0","0",";","2","0","2","3","-","0","2","-","0","1">>,
       <<"5","0","0","0",";","a","b","c",";","2","0","2","3","-","0","3","-","0","1">> >>

\* a ledger file without an amount column
k_noamount_lines ==
    << <<"K","o","n","t","o",";","B","u","c","h","u","n","g","s","t","e","x","t",";","B","e","l","e","g","n","u","m","m","e","r">>,
       <<"4","0","0","0",";","S","t","r","o","m",";","B","1">> >>

\* a tab-separated ledger file without an account column
k_noaccount_lines ==
    << <<"B","e","t","r","a","g","\t","D","a","t","u","m","\t","T","e","x","t">>,
       <<"1","0",",","0","0","\t","0","1",".","0","1",".","2","0","2","4","\t","x">> >>

\* only two columns under every delimiter
k_twocol_lines ==
    << <<"K","o","n","t","o",";","B","e","t","r","a","g">>,
       <<"4","0","0","0",";","1","0",",","0","0">> >>

\* a header line and no data rows
k_hdronly_lines ==
    << <<"K","o","n","t","o",";","B","e","t","r","a","g",";","D","a","t","u","m">> >>

\* a comma-separated supplier file, the second supplier without a name
k_wawi_lines ==
    << <<"L","i","e","f","e","r","a","n","t","e","n","N","r",",","F","i","r","m","e","n","n","a","m","e",",","U","I","D">>,
       <<"L","1",",","A","C","M","E",",","A","T","U","1">>,
       <<"L","2",",",",","A","T","U","2">> >>

\* one ledger row whose date cannot be read
k_nodate_lines ==
    << <<"K","o","n","t","o",";","B","e","t","r","a","g",";","D","a","t","u","m">>,
       <<"5","0","0","0",";","5",",","0","0",";","o","f","f","e","n">> >>

\* one ledger row of 2024, the year written with two digits
k_y24_lines ==
    << <<"K","o","n","t","o",";","B","e","t","r","a","g",";","D","a","t","u","m">>,
       <<"5","0","0","0",";","7",",","0","0",";","0","3",".","0","4",".","2","4">> >>

\* the number of rows with a blank account field in the ledger below
MaxBlankRows == 22

\* a ledger with one row whose account field is a single blank, one booked
\* row, and then blank-account rows up to MaxBlankRows of them
k_blanks_lines ==
    << <<"K","o","n","t","o",";","B","e","t","r","a","g",";","D","a","t","u","m">> >>
    \o [ i \in 1..(MaxBlankRows + 1) |->
            IF i = 2
            THEN <<"5","0","0","0",";","3","0",",","0","0",";","2","0","2","3","-","0","2","-","0","1">>
            ELSE <<" ",";","1","0",",","0","0",";","0","1",".","0","2",".","2","0","2","3">> ]

Catalogue ==
    [ k_fibu3     |-> [lines |-> k_fibu3_lines,     chardet |-> "utf-8"],
      k_ws        |-> [lines |-> k_ws_lines,        chardet |-> "utf-8"],
      k_noamount  |-> [lines |-> k_noamount_lines,  chardet |-> "utf-8"],
      k_noaccount |-> [lines |-> k_noaccount_lines, chardet |-> "utf-8"],
      k_twocol    |-> [lines |-> k_twocol_lines,    chardet |-> "utf-8"],
      k_hdronly   |-> [lines |-> k_hdronly_lines,   chardet |-> "utf-8"],
      k_wawi      |-> [lines |-> k_wawi_lines,      chardet |-> "ISO-8859-1"],
      k_nodate    |-> [lines |-> k_nodate_lines,    chardet |-> "utf-8"],
      k_y24       |-> [lines |-> k_y24_lines,       chardet |-> "utf-8"],
      k_blanks    |-> [lines |-> k_blanks_lines,    chardet |-> "utf-8"] ]

Contents == DOMAIN Catalogue
NoFile == "-"
FileNames == {"a.csv", "b.csv"}
CompanyIds == {1, 2}

\* a digest taken over the name of the file instead of its bytes
NameDigest(file_name, k) == <<"sha256", file_name>>

\* hashlib.sha256 over the bytes of the file at the path: a digest of the
\* content k found there and of nothing else (collisions are outside the
\* model)
compute_file_hash(file_name, k) == <<"sha256", Catalogue[k].lines>>

\* os.path.getsize: the lines and the newline after each of them
RECURSIVE SumLen(_)
SumLen(ls) == IF ls = <<>> THEN 0 ELSE Len(Head(ls)) + 1 + SumLen(Tail(ls))
getsize(k) == SumLen(Catalogue[k].lines)

\* detect_encoding: strict UTF-8 first, else chardet with the Latin-1 family
\* coerced to windows-1252
detect_encoding(k) ==
    LET detected == Catalogue[k].chardet
    IN  IF detected = "utf-8" THEN "utf-8"
        ELSE IF detected \in {"ISO-8859-1", "latin-1", "ascii"} THEN "windows-1252"
        ELSE detected

\* ------------------------------------------------------------------------
\* pd.read_csv(file_path, encoding=encoding, sep=sep, dtype=str)
\* ------------------------------------------------------------------------
RECURSIVE Split(_, _)
Split(line, sep) ==
    LET at == {i \in 1..Len(line) : line[i] = sep}
    IN  IF at = {} THEN <<line>>
        ELSE LET i == CHOOSE x \in at : \A y \in at : x <= y
             IN  <<SubSeq(line, 1, i - 1)>> \o Split(SubSeq(line, i + 1, Len(line)), sep)

\* the default na_values of pandas that the model alphabet can spell
NaValues == { <<>>, <<"n","a","n">>, <<"N","a","N">>, <<"N","A">>,
              <<"N","U","L","L">>, <<"n","u","l","l">>, <<"N","/","A">> }

ToCell(field) == IF field \in NaValues THEN NaNCell ELSE TextCell(field)

\* raised = TRUE stands for an exception of read_csv: EmptyDataError for a
\* file without lines, ParserError for a row with more fields than the
\* header.  A row with fewer fields is filled up with NaN.
read_csv(k, sep) ==
    LET lines == Catalogue[k].lines
        columns == Split(lines[1], sep)
        fields(i) == Split(lines[i + 1], sep)
        n == Len(lines) - 1
    IN  IF lines = <<>> \/ \E i \in 1..n : Len(fields(i)) > Len(columns)
        THEN [raised |-> TRUE, columns |-> <<>>, rows |-> <<>>]
        ELSE [raised |-> FALSE,
              columns |-> columns,
              rows |-> [i \in 1..n |->
                          [c \in 1..Len(columns) |->
                              IF c <= Len(fields(i)) THEN ToCell(fields(i)[c])
                              ELSE NaNCell]]]

\* row.get(col, default) of the idx-th row (0-based) of the DataFrame
RowGet(df, idx, col, default) ==
    LET hits == {c \in 1..Len(df.columns) : df.columns[c] = col}
    IN  IF hits = {} THEN default
        ELSE df.rows[idx + 1][CHOOSE c \in hits : TRUE]

\* str(row.get(col, "")).strip() if col else None
OptText(df, idx, col) ==
    IF Falsy(col) THEN None ELSE Strip(PyStr(RowGet(df, idx, col, TextCell(<<>>))))

\* ------------------------------------------------------------------------
\* Small helpers for the store
\* ------------------------------------------------------------------------
\* a nullable number column
NullNum == [null |-> TRUE, v |-> 0]
Num(v) == [null |-> FALSE, v |-> v]

Min(a, b) == IF a <= b THEN a ELSE b

\* the elements of a finite set of integers in ascending order
RECURSIVE Ascending(_)
Ascending(S) ==
    IF S = {} THEN <<>>
    ELSE LET m == CHOOSE x \in S : \A y \in S : x <= y
         IN  <<m>> \o Ascending(S \ {m})

\* a write that replaces the rows of the table
ReplaceAll(table, rows) == SetToBag({rows[i] : i \in 1..Len(rows)})

\* session.add of every element of a sequence of rows
RECURSIVE AddAll(_, _)
AddAll(table, rows) ==
    IF rows = <<>> THEN table
    ELSE AddAll(table (+) SetToBag({Head(rows)}), Tail(rows))

\* ------------------------------------------------------------------------
\* ingest_fibu: ledger rows -> Transaction rows
\* ------------------------------------------------------------------------
\* account = str(row.get(col_account, "")).strip()
RowAccount(df, idx, col_account) ==
    Strip(PyStr(RowGet(df, idx, col_account, TextCell(<<>>))))

\* if not account: the row is quarantined
RowQuarantined(df, idx, col_account) == RowAccount(df, idx, col_account) = <<>>

\* a check of the account column alone
AccountColumnOnly(col_account, col_amount) ==
    IF Falsy(col_account) THEN "Could not find account number column" ELSE NULL

\* the two mandatory-column checks, in their order: the error message, or
\* NULL when both columns were found
MissingColumn(col_account, col_amount) ==
    IF Falsy(col_account) THEN "Could not find account number column"
    ELSE IF Falsy(col_amount) THEN "Could not find amount column"
    ELSE NULL

\* every reason, without a cap
AllReasons(quarantine_reasons) == quarantine_reasons

\* quarantine_reasons[:20]
CapReasons(quarantine_reasons) ==
    SubSeq(quarantine_reasons, 1, Min(20, Len(quarantine_reasons)))

ingest_fibu(df, company_id, file_name) ==
    LET cols == df.columns
        col_date    == find_column(cols, FIBU_FIELD_VARIANTS.date)
        col_account == find_column(cols, FIBU_FIELD_VARIANTS.account)
        col_counter == find_column(cols, FIBU_FIELD_VARIANTS.counter_account)
        col_amount  == find_column(cols, FIBU_FIELD_VARIANTS.amount)
        col_vat     == find_column(cols, FIBU_FIELD_VARIANTS.vat_code)
        col_cost    == find_column(cols, FIBU_FIELD_VARIANTS.cost_center)
        col_docref  == find_column(cols, FIBU_FIELD_VARIANTS.document_ref)
        col_text    == find_column(cols, FIBU_FIELD_VARIANTS.booking_text)
        all == 0..(Len(df.rows) - 1)
        bad == {idx \in all : RowQuarantined(df, idx, col_account)}
        good == Ascending(all \ bad)
        date_val(idx) == IF Falsy(col_date) THEN None
                         ELSE parse_austrian_date(RowGet(df, idx, col_date, NaNCell))
        tx(idx) ==
            [ company_id      |-> company_id,
              date            |-> IF Falsy(date_val(idx)) THEN SentinelDate
                                  ELSE date_val(idx),
              account_number  |-> RowAccount(df, idx, col_account),
              counter_account |-> OptText(df, idx, col_counter),
              amount_eur      |-> parse_austrian_number(
                                      RowGet(df, idx, col_amount, NaNCell)),
              vat_code        |-> OptText(df, idx, col_vat),
              cost_center     |-> OptText(df, idx, col_cost),
              document_ref    |-> OptText(df, idx, col_docref),
              booking_text    |-> OptText(df, idx, col_text),
              source_file     |-> file_name,
              row_number      |-> idx + 2 ]
        reasons == [i \in 1..Cardinality(bad) |->
                      [row |-> Ascending(bad)[i] + 2,
                       reason |-> "missing account number"]]
        aborted(msg) ==
            [ keys |-> {"error", "rows_valid"}, error |-> msg,
              rows_valid |-> 0, rows_quarantined |-> 0,
              quarantine_reasons |-> <<>>, staged |-> <<>> ]
    IN  IF MissingColumn(col_account, col_amount) # NULL
        THEN aborted(MissingColumn(col_account, col_amount))
        ELSE [ keys |-> {"rows_valid", "rows_quarantined", "quarantine_reasons"},
               error |-> NULL,
               rows_valid |-> Len(good),
               rows_quarantined |-> Cardinality(bad),
               quarantine_reasons |-> CapReasons(reasons),
               staged |-> [i \in 1..Len(good) |-> tx(good[i])] ]

\* ------------------------------------------------------------------------
\* ingest_wawi: supplier rows -> Supplier rows
\* ------------------------------------------------------------------------
ingest_wawi(df, company_id, file_name) ==
    LET cols == df.columns
        col_name    == find_column(cols, WAWI_FIELD_VARIANTS.name)
        col_uid     == find_column(cols, WAWI_FIELD_VARIANTS.uid)
        col_country == find_column(cols, WAWI_FIELD_VARIANTS.country)
        col_amount  == find_column(cols, WAWI_FIELD_VARIANTS.amount)
        name(idx) == Strip(PyStr(RowGet(df, idx, col_name, TextCell(<<>>))))
        all == 0..(Len(df.rows) - 1)
        bad == {idx \in all : name(idx) = <<>> \/ name(idx) = <<"n","a","n">>}
        good == Ascending(all \ bad)
        supplier(idx) ==
            [ company_id |-> company_id,
              name       |-> name(idx),
              uid_vat    |-> OptText(df, idx, col_uid),
              country    |-> OptText(df, idx, col_country),
              spend_eur_annual |->
                  IF Falsy(col_amount) THEN NullNum
                  ELSE Num(parse_austrian_number(RowGet(df, idx, col_amount, NaNCell))) ]
    IN  IF Falsy(col_name)
        THEN [ keys |-> {"error", "rows_valid"},
               error |-> "Could not find supplier name column",
               rows_valid |-> 0, rows_quarantined |-> 0,
               quarantine_reasons |-> <<>>, staged |-> <<>> ]
        ELSE [ keys |-> {"rows_valid", "rows_quarantined"},
               error |-> NULL,
               rows_valid |-> Len(good),
               rows_quarantined |-> Cardinality(bad),
               quarantine_reasons |-> <<>>,
               staged |-> [i \in 1..Len(good) |-> supplier(good[i])] ]

\* ------------------------------------------------------------------------
\* ingest_file
\* ------------------------------------------------------------------------
\* the delimiters of step 3, in the order they are tried
Delimiters == <<";", ",", "\t">>

\* for sep in [";", ",", "\t"]: the first delimiter under which read_csv
\* does not raise and yields more than 2 columns; 0 when the loop runs out
\* (the for/else raises ValueError)
UsableDelimiter(k) ==
    LET ok == {i \in 1..Len(Delimiters) :
                  LET df == read_csv(k, Delimiters[i])
                  IN  ~df.raised /\ Len(df.columns) > 2}
    IN  IF ok = {} THEN 0 ELSE CHOOSE i \in ok : \A j \in ok : i <= j

\* a lookup that never finds a row
NeverLogged(file_ingestion_log, file_hash) == FALSE

\* session.query(FileIngestionLog).filter_by(file_hash=file_hash).first()
HashLogged(file_ingestion_log, file_hash) ==
    \E l \in BagToSet(file_ingestion_log) : l.file_hash = file_hash

\* the dictionary that ingest_file returns: keys names the keys present
ResultDict(keys, status, error, file_type, encoding, rows_total, r) ==
    [ keys |-> keys, status |-> status, error |-> error,
      file_type |-> file_type, encoding |-> encoding,
      rows_total |-> rows_total, rows_valid |-> r.rows_valid,
      rows_quarantined |-> r.rows_quarantined,
      quarantine_reasons |-> r.quarantine_reasons ]

NoRows == [rows_valid |-> 0, rows_quarantined |-> 0, quarantine_reasons |-> <<>>]

\* Steps 3 and 4 of ingest_file for every content of the catalogue: the
\* delimiter loop, the DataFrame it leaves and the detected file type.
\* sepIx = 0 stands for the ValueError of the for/else.
ParseStage ==
    [ k \in Contents |->
        LET sepIx == UsableDelimiter(k)
            df == IF sepIx = 0 THEN [raised |-> TRUE, columns |-> <<>>, rows |-> <<>>]
                  ELSE read_csv(k, Delimiters[sepIx])
        IN  [sepIx |-> sepIx, df |-> df, file_type |-> detect_file_type(df.columns)] ]

\* Step 5 of ingest_file: the family parser chosen by the file type, FIBU
\* being the default for UNKNOWN
FamilyParser(parsed, company_id, file_name) ==
    IF parsed.sepIx = 0 THEN NoRows
    ELSE IF parsed.file_type = "WAWI"
    THEN ingest_wawi(parsed.df, company_id, file_name)
    ELSE ingest_fibu(parsed.df, company_id, file_name)

\* step 5 for every content, file name and company
FamilyStage ==
    [ k \in Contents |-> [ file_name \in FileNames |-> [ company_id \in CompanyIds |->
        FamilyParser(ParseStage[k], company_id, file_name) ]]]

\* a status that does not look at the rows
AlwaysSuccess(rows_valid) == "success"

\* status="success" if result.get("rows_valid", 0) > 0 else "failed"
LogStatus(rows_valid) == IF rows_valid > 0 THEN "success" ELSE "failed"

\* Steps 1, 2 and 6 of ingest_file around the parse of steps 3 and 4
\* (parsed) and the result of the family parser of step 5 (result).  db is
\* the part of the store that ingestion writes; the value is the store after
\* the call and the returned dictionary.
IngestSteps(db, file_name, k, company_id, file_hash, encoding, parsed, result) ==
    LET sepIx == parsed.sepIx
        df == parsed.df
        file_type == parsed.file_type
        failedLog ==
            [ file_name |-> file_name, file_hash |-> file_hash,
              file_size |-> NullNum, encoding_detected |-> encoding,
              rows_parsed |-> 0, rows_valid |-> 0, rows_quarantined |-> 0,
              status |-> "failed",
              error_message |-> "Could not parse CSV with any common delimiter" ]
        log ==
            [ file_name |-> file_name, file_hash |-> file_hash,
              file_size |-> Num(getsize(k)), encoding_detected |-> encoding,
              rows_parsed |-> Len(df.rows),
              rows_valid |-> result.rows_valid,
              rows_quarantined |-> result.rows_quarantined,
              status |-> LogStatus(result.rows_valid),
              error_message |-> result.error ]
        audit ==
            [ action |-> "file_ingested", resource_type |-> "file",
              resource_id |-> file_name,
              details |-> [type |-> file_type, valid |-> result.rows_valid,
                           quarantined |-> result.rows_quarantined] ]
    IN  IF HashLogged(db.file_ingestion_log, file_hash)
        THEN [ db |-> db,
               result |-> ResultDict({"status", "original_ingestion"}, "duplicate",
                                     NULL, NULL, NULL, 0, NoRows) ]
        ELSE IF sepIx = 0
        THEN [ db |-> [db EXCEPT !.file_ingestion_log = @ (+) SetToBag({failedLog})],
               result |-> ResultDict({"status", "error"}, "failed",
                                     failedLog.error_message, NULL, NULL, 0, NoRows) ]
        ELSE [ db |-> [ file_ingestion_log |->
                            db.file_ingestion_log (+) SetToBag({log}),
                        transactions |->
                            IF file_type = "WAWI" THEN db.transactions
                            ELSE AddAll(db.transactions, result.staged),
                        suppliers |->
                            IF file_type = "WAWI" THEN AddAll(db.suppliers, result.staged)
                            ELSE db.suppliers,
                        audit_log |-> db.audit_log (+) SetToBag({audit}) ],
               result |-> ResultDict(
                   {"status", "file_type", "encoding", "rows_total"} \cup result.keys,
                   "success", result.error, file_type, encoding, Len(df.rows), result) ]

ingest_file(db, file_name, k, company_id) ==
    IngestSteps(db, file_name, k, company_id,
                compute_file_hash(file_name, k), detect_encoding(k),
                ParseStage[k], FamilyStage[k][file_name][company_id])

\* ------------------------------------------------------------------------
\* ingest_all_from_inbox
\* ------------------------------------------------------------------------
\* sorted(Path(inbox).glob("*.csv")): the names of FileNames in sort order
SortedNames == <<"a.csv", "b.csv">>

\* one pass of the for loop: r is what ingest_file returned for file n and
\* the store it left; st = [db, inbox, processed, results]
InboxPass(st, n, r) ==
    LET moved == r.result.status = "success"
    IN  [ db |-> r.db,
          inbox |-> IF moved THEN [st.inbox EXCEPT ![n] = NoFile] ELSE st.inbox,
          processed |-> IF moved THEN [st.processed EXCEPT ![n] = st.inbox[n]]
                        ELSE st.processed,
          results |-> Append(st.results, [file |-> n, result |-> r.result]) ]

\* the for loop over the listing taken before the loop
RECURSIVE InboxLoop(_, _, _)
InboxLoop(st, csv_files, company_id) ==
    IF csv_files = <<>> THEN st
    ELSE InboxLoop(
             InboxPass(st, Head(csv_files),
                       ingest_file(st.db, Head(csv_files), st.inbox[Head(csv_files)],
                                   company_id)),
             Tail(csv_files), company_id)

\* ------------------------------------------------------------------------
\* Agent 2: account mapping
\* ------------------------------------------------------------------------
ESG_CATEGORIES ==
    { "energy_electricity", "energy_gas", "fuel", "water", "waste", "logistics",
      "materials", "travel", "hr_payroll", "rent_facilities", "insurance",
      "professional_fees", "revenue", "financial", "tax", "depreciation", "other" }

\* What classify_with_claude may return: the JSON of the service with
\* source "claude_api" added, or the fallback without an API key.
\* Confidence is in percent.
ClassifierAnswers ==
    { [category |-> c, confidence |-> 90, source |-> "claude_api"] :
        c \in {"energy_electricity", "energy_gas", "logistics"} }

\* get_unmapped_accounts: accounts of the company's transactions that have
\* no mapping of the company
get_unmapped_accounts(txs, maps, company_id) ==
    {t.account_number : t \in {x \in BagToSet(txs) : x.company_id = company_id}}
    \ {m.account_number : m \in {x \in BagToSet(maps) : x.company_id = company_id}}

\* check_mapping_library: the suggestions it may return for an account name,
\* empty when no confirmed mapping of that name exists in any company.  A
\* tie of max(set(categories), key=categories.count) may resolve either way.
check_mapping_library(maps, account_name) ==
    LET similar == {m \in BagToSet(maps) :
                        m.account_name = account_name /\ m.confirmed_by # NULL}
        count(c) == BagCardinality(
                        [m \in {x \in similar : x.esg_category = c} |-> maps[m]])
        total == BagCardinality([m \in similar |-> maps[m]])
        cats == {m.esg_category : m \in similar}
        best == {c \in cats : \A d \in cats : count(d) <= count(c)}
    IN  { [category |-> c, confidence |-> (100 * count(c)) \div total,
           source |-> "mapping_library"] : c \in best }

\* the suggestions a mapping run may end up with for one account: the
\* library match if its confidence reaches the threshold of the run,
\* otherwise one of the answers of classify_with_claude
SuggestionsFrom(maps, account_number, threshold, answers) ==
    LET lib == check_mapping_library(maps, account_number)
    IN  {s \in lib : s.confidence >= threshold}
        \cup (IF lib = {} \/ \E s \in lib : s.confidence < threshold
              THEN answers ELSE {})

\* the suggestions map_accounts_auto may end up with for one account
AutoSuggestions(maps, account_number) ==
    SuggestionsFrom(maps, account_number, 80, ClassifierAnswers)

\* the AccountMapping row map_accounts_auto saves for a suggestion
AutoMapping(company_id, account_number, suggestion) ==
    [ company_id |-> company_id,
      account_number |-> account_number,
      account_name |-> account_number,
      esg_category |-> suggestion.category,
      confidence_score |-> suggestion.confidence,
      confirmed_by |-> IF suggestion.confidence >= 80 THEN "auto" ELSE "needs_review",
      source |-> suggestion.source ]

\* Enter at the prompt of map_accounts_interactive: the default is taken
DefaultChoice == "<Enter>"

\* the AccountMapping row map_accounts_interactive saves for a suggestion
\* and the text typed at the prompt (not asked for when the suggestion is
\* auto-accepted)
InteractiveMapping(company_id, account_number, suggestion, choice) ==
    LET auto == suggestion.confidence >= 90 /\ suggestion.source # "no_api_key"
        typed == IF choice = DefaultChoice THEN suggestion.category ELSE choice
    IN  [ company_id |-> company_id,
          account_number |-> account_number,
          account_name |-> account_number,
          esg_category |-> IF auto THEN suggestion.category
                           ELSE IF typed \in ESG_CATEGORIES THEN typed
                           ELSE suggestion.category,
          confidence_score |-> suggestion.confidence,
          confirmed_by |-> IF auto THEN "auto_high_confidence" ELSE "human",
          source |-> suggestion.source ]

\* the audit entry of one saved mapping
MappingAudit(mapping) ==
    [ action |-> "account_mapped", resource_type |-> "account_mapping",
      resource_id |-> mapping.account_number,
      details |-> [category |-> mapping.esg_category,
                   confidence |-> mapping.confidence_score,
                   source |-> mapping.source] ]

\* ------------------------------------------------------------------------
\* Agent 3: emissions calculation
\* ------------------------------------------------------------------------
\* factor is in 1/1000 kg CO2e per unit
EMISSION_FACTORS ==
    [ electricity_austria |->
          [factor |-> 71, unit |-> "kWh", vintage |-> 2024, scope |-> 2,
           source |-> "Umweltbundesamt Austria - Stromkennzeichnung"],
      electricity_eu_average |->
          [factor |-> 233, unit |-> "kWh", vintage |-> 2023, scope |-> 2,
           source |-> "European Environment Agency"],
      district_heating_austria |->
          [factor |-> 124, unit |-> "kWh", vintage |-> 2024, scope |-> 2,
           source |-> "Umweltbundesamt Austria - Fernwaerme"],
      natural_gas_scope2 |->
          [factor |-> 201, unit |-> "kWh", vintage |-> 2024, scope |-> 2,
           source |-> "Umweltbundesamt Austria - Erdgas"],
      natural_gas_scope1 |->
          [factor |-> 201, unit |-> "kWh", vintage |-> 2024, scope |-> 1,
           source |-> "Umweltbundesamt Austria - Erdgas"],
      heating_oil |->
          [factor |-> 266, unit |-> "kWh", vintage |-> 2024, scope |-> 1,
           source |-> "Umweltbundesamt Austria - Heizoel Extra Leicht"],
      diesel |->
          [factor |-> 2640, unit |-> "litre", vintage |-> 2024, scope |-> 1,
           source |-> "Umweltbundesamt Austria - Diesel"],
      petrol |->
          [factor |-> 2370, unit |-> "litre", vintage |-> 2024, scope |-> 1,
           source |-> "Umweltbundesamt Austria - Benzin"],
      business_travel_flight_short |->
          [factor |-> 255, unit |-> "passenger-km", vintage |-> 2024, scope |-> 3,
           source |-> "Umweltbundesamt Austria / DEFRA 2024"],
      business_travel_flight_long |->
          [factor |-> 195, unit |-> "passenger-km", vintage |-> 2024, scope |-> 3,
           source |-> "Umweltbundesamt Austria / DEFRA 2024"],
      business_travel_train |->
          [factor |-> 6, unit |-> "passenger-km", vintage |-> 2024, scope |-> 3,
           source |-> "OeBB Umweltbilanz"],
      freight_road |->
          [factor |-> 62, unit |-> "tonne-km", vintage |-> 2024, scope |-> 3,
           source |-> "Umweltbundesamt Austria - Strassengueterverkehr"] ]

\* eur_per_unit is in cents
PRICE_CONVERSIONS ==
    [ energy_electricity |->
          [eur_per_unit |-> 22, unit |-> "kWh", factor_key |-> "electricity_austria"],
      energy_gas |->
          [eur_per_unit |-> 8, unit |-> "kWh", factor_key |-> "natural_gas_scope1"],
      fuel |->
          [eur_per_unit |-> 150, unit |-> "litre", factor_key |-> "diesel"],
      logistics |->
          [eur_per_unit |-> 15, unit |-> "tonne-km", factor_key |-> "freight_road"] ]

\* the order in which PRICE_CONVERSIONS.items() yields the categories
ConversionOrder == <<"energy_electricity", "energy_gas", "fuel", "logistics">>

\* n / d cut off instead of rounded
FloorDiv(n, d) == n \div d

\* round(n / d) of Python for n >= 0, d > 0: to the nearest integer, a tie
\* to the even one
RoundDiv(n, d) ==
    LET q == n \div d
        r == n % d
    IN  IF 2 * r > d THEN q + 1
        ELSE IF 2 * r < d THEN q
        ELSE IF q % 2 = 0 THEN q ELSE q + 1

\* a non-negative rational kept as whole + num/den with 0 <= num < den = RatDen,
\* the common denominator of the terms spend * factor / (price * 100)
RatDen == 660000
RatZero == [whole |-> 0, num |-> 0]
RatOf(n, d) == [whole |-> n \div d, num |-> (n % d) * (RatDen \div d)]
RatAdd(a, b) ==
    [ whole |-> a.whole + b.whole + ((a.num + b.num) \div RatDen),
      num |-> (a.num + b.num) % RatDen ]

\* round(x, 4) of a value x kept in units of 1e-4
RatRound(a) ==
    IF 2 * a.num > RatDen THEN a.whole + 1
    ELSE IF 2 * a.num < RatDen THEN a.whole
    ELSE IF a.whole % 2 = 0 THEN a.whole ELSE a.whole + 1

\* f"{x:.2f}" of a value x kept in units of 1e-4, in units of 1e-2
RatRound2(a) ==
    LET q == a.whole \div 100
        r == a.whole % 100
    IN  IF r > 50 \/ (r = 50 /\ a.num > 0) THEN q + 1
        ELSE IF r < 50 THEN q
        ELSE IF q % 2 = 0 THEN q ELSE q + 1

\* Transaction.date.like(f"{period}%")
StartsWith(s, prefix) ==
    Len(s) >= Len(prefix) /\ SubSeq(s, 1, Len(prefix)) = prefix

\* the transactions calculate_emissions selects, as a bag
SelectedTransactions(txs, company_id, period) ==
    LET sel == {t \in BagToSet(txs) :
                   /\ t.company_id = company_id
                   /\ (Falsy(period) \/ StartsWith(t.date, period))}
    IN  [t \in sel |-> txs[t]]

\* "-".join(sorted(years)) for a set of 4-digit year strings
RECURSIVE JoinYears(_)
JoinYears(years) ==
    IF years = {} THEN <<>>
    ELSE LET y == CHOOSE a \in years : \A b \in years : DigitsVal(a) <= DigitsVal(b)
         IN  IF years = {y} THEN y ELSE y \o <<"-">> \o JoinYears(years \ {y})

\* a label over the years of all dates, the sentinel date among them
PeriodOfAllDates(sel) ==
    JoinYears({SubSeq(t.date, 1, 4) : t \in BagToSet(sel)})

\* the period label derived from the data when no period is given
DerivedPeriod(sel) ==
    LET dates == {t.date : t \in {x \in BagToSet(sel) : x.date # SentinelDate}}
        years == {SubSeq(d, 1, 4) : d \in {x \in dates : Len(x) >= 4}}
    IN  IF dates = {} THEN <<"u","n","k","n","o","w","n">>
        ELSE JoinYears(years)

\* account_category.get(tx.account_number, "other")
CategoryOf(maps, company_id, account_number) ==
    LET ms == {m \in BagToSet(maps) :
                  m.company_id = company_id /\ m.account_number = account_number}
    IN  IF ms = {} THEN "other" ELSE (CHOOSE m \in ms : TRUE).esg_category

\* the sum of a bag of transactions' amounts
RECURSIVE SumAmounts(_)
SumAmounts(b) ==
    IF BagToSet(b) = {} THEN 0
    ELSE LET t == CHOOSE x \in BagToSet(b) : TRUE
         IN  b[t] * t.amount_eur + SumAmounts([x \in BagToSet(b) \ {t} |-> b[x]])

\* a test that lets credits through
NonZeroAmount(amount_eur) == amount_eur # 0

\* if tx.amount_eur and tx.amount_eur > 0
CountsAsSpend(amount_eur) == amount_eur # 0 /\ amount_eur > 0

\* category_spend[cat]: cents of positive amounts booked to the category
category_spend(sel, maps, company_id, cat) ==
    LET hit == {t \in BagToSet(sel) :
                   /\ CategoryOf(maps, company_id, t.account_number) = cat
                   /\ CountsAsSpend(t.amount_eur)}
    IN  SumAmounts([t \in hit |-> sel[t]])

\* the EmissionRecord of one category of PRICE_CONVERSIONS with spend > 0
EmissionRecordOf(company_id, period, category, spend) ==
    LET conversion == PRICE_CONVERSIONS[category]
        factor_info == EMISSION_FACTORS[conversion.factor_key]
    IN  [ company_id |-> company_id,
          period |-> period,
          scope |-> factor_info.scope,
          category |-> category,
          value_tco2e |-> RoundDiv(spend * factor_info.factor,
                                   conversion.eur_per_unit * 100),
          quantity |-> RoundDiv(spend * 100, conversion.eur_per_unit),
          unit |-> conversion.unit,
          emission_factor_used |-> factor_info.factor,
          factor_source |-> factor_info.source,
          factor_vintage |-> factor_info.vintage,
          calculation_method |->
              [ spend_eur |-> spend,
                price |-> conversion.eur_per_unit,
                quantity |-> RoundDiv(spend * 100, conversion.eur_per_unit),
                factor |-> factor_info.factor,
                emissions_kg |-> RoundDiv(spend * factor_info.factor,
                                          conversion.eur_per_unit * 10),
                emissions_tco2e |-> RoundDiv(spend * factor_info.factor,
                                             conversion.eur_per_unit * 100) ] ]

\* emissions_tco2e before rounding, in units of 1e-4 t
EmissionsExact(category, spend) ==
    LET conversion == PRICE_CONVERSIONS[category]
    IN  RatOf(spend * EMISSION_FACTORS[conversion.factor_key].factor,
              conversion.eur_per_unit * 100)

\* a delete that removes nothing
DeleteNothing(records, company_id, period) == records

\* session.query(EmissionRecord).filter(company_id, period).delete()
DeletePeriod(records, company_id, period) ==
    LET keep == {e \in BagToSet(records) :
                    ~(e.company_id = company_id /\ e.period = period)}
    IN  [e \in keep |-> records[e]]

\* every category of the conversion table, spent on or not
AllConversions(sel, maps, company_id) == ConversionOrder

\* the categories of ConversionOrder with spend > 0, in that order
ComputedCategories(sel, maps, company_id) ==
    SelectSeq(ConversionOrder,
              LAMBDA c : category_spend(sel, maps, company_id, c) > 0)

\* scope_totals[scope] before rounding
RECURSIVE ScopeTotal(_, _, _, _, _)
ScopeTotal(cats, sel, maps, company_id, scope) ==
    IF cats = <<>> THEN RatZero
    ELSE LET c == Head(cats)
             rest == ScopeTotal(Tail(cats), sel, maps, company_id, scope)
         IN  IF EMISSION_FACTORS[PRICE_CONVERSIONS[c].factor_key].scope = scope
             THEN RatAdd(EmissionsExact(c, category_spend(sel, maps, company_id, c)),
                         rest)
             ELSE rest

\* an error result that does not name the precondition
UnnamedError(msg) ==
    [ keys |-> {"error"}, error |-> "error", status |-> NULL, period |-> None,
      scope_1_tco2e |-> 0, scope_2_tco2e |-> 0, scope_3_tco2e |-> 0,
      total_tco2e |-> 0, details |-> <<>>, category_spend |-> <<>> ]

CalcError(msg) ==
    [ keys |-> {"error"}, error |-> msg, status |-> NULL, period |-> None,
      scope_1_tco2e |-> 0, scope_2_tco2e |-> 0, scope_3_tco2e |-> 0,
      total_tco2e |-> 0, details |-> <<>>, category_spend |-> <<>> ]

\* st = [companies, account_mappings, transactions, emissions_records,
\* audit_log]; the value is the two tables the call writes and the
\* returned dictionary
calculate_emissions(st, company_id, period_arg) ==
    LET unchanged(msg) ==
            [ emissions_records |-> st.emissions_records,
              audit_log |-> st.audit_log, result |-> CalcError(msg) ]
        maps == st.account_mappings
        sel == SelectedTransactions(st.transactions, company_id, period_arg)
        period == IF Falsy(period_arg) THEN DerivedPeriod(sel) ELSE period_arg
        cats == ComputedCategories(sel, maps, company_id)
        spend(c) == category_spend(sel, maps, company_id, c)
        records == [i \in 1..Len(cats) |->
                       EmissionRecordOf(company_id, period, cats[i], spend(cats[i]))]
        total(s) == ScopeTotal(cats, sel, maps, company_id, s)
        spent == {CategoryOf(maps, company_id, t.account_number) :
                     t \in {x \in BagToSet(sel) : CountsAsSpend(x.amount_eur)}}
        audit ==
            [ action |-> "emissions_calculated", resource_type |-> "company",
              resource_id |-> company_id,
              details |-> [period |-> period, scope1 |-> RatRound2(total(1)),
                           scope2 |-> RatRound2(total(2)),
                           scope3 |-> RatRound2(total(3))] ]
    IN  IF company_id \notin st.companies THEN unchanged("Company not found")
        ELSE IF \A m \in BagToSet(maps) : m.company_id # company_id
        THEN unchanged("No mappings")
        ELSE IF sel = EmptyBag THEN unchanged("No transactions")
        ELSE [ emissions_records |->
                   AddAll(DeletePeriod(st.emissions_records, company_id, period),
                          records),
               audit_log |-> st.audit_log (+) SetToBag({audit}),
               result |->
                   [ keys |-> {"status", "period", "scope_1_tco2e", "scope_2_tco2e",
                               "scope_3_tco2e", "total_tco2e", "details",
                               "category_spend"},
                     error |-> NULL,
                     status |-> "complete",
                     period |-> period,
                     scope_1_tco2e |-> RatRound(total(1)),
                     scope_2_tco2e |-> RatRound(total(2)),
                     scope_3_tco2e |-> RatRound(total(3)),
                     total_tco2e |->
                         RatRound(RatAdd(total(1), RatAdd(total(2), total(3)))),
                     details |->
                         [i \in 1..Len(cats) |->
                             [ category |-> cats[i],
                               scope |-> records[i].scope,
                               spend_eur |-> spend(cats[i]),
                               unit |-> records[i].unit,
                               factor |-> records[i].emission_factor_used,
                               factor_source |-> records[i].factor_source,
                               emissions_tco2e |->
                                   EmissionsExact(cats[i], spend(cats[i])) ]],
                     category_spend |-> [c \in spent |-> spend(c)] ] ]

\* ------------------------------------------------------------------------
\* Agent 4: gap audit
\* ------------------------------------------------------------------------
ESRS_E1_REQUIREMENTS ==
    << [ref |-> "E1-1", data_source |-> "management_input", auto_assessable |-> FALSE,
        check_categories |-> {}, check_scopes |-> {},
        title |-> "Transition plan for climate change mitigation"],
       [ref |-> "E1-2", data_source |-> "management_input", auto_assessable |-> FALSE,
        check_categories |-> {}, check_scopes |-> {},
        title |-> "Policies related to climate change mitigation and adaptation"],
       [ref |-> "E1-3", data_source |-> "management_input", auto_assessable |-> FALSE,
        check_categories |-> {}, check_scopes |-> {},
        title |-> "Actions and resources related to climate change"],
       [ref |-> "E1-4", data_source |-> "management_input", auto_assessable |-> FALSE,
        check_categories |-> {}, check_scopes |-> {},
        title |-> "Targets related to climate change mitigation and adaptation"],
       [ref |-> "E1-5", data_source |-> "bmd_fibu", auto_assessable |-> TRUE,
        check_categories |-> {"energy_electricity", "energy_gas"}, check_scopes |-> {},
        title |-> "Energy consumption and mix"],
       [ref |-> "E1-6", data_source |-> "calculation_engine", auto_assessable |-> TRUE,
        check_categories |-> {}, check_scopes |-> {1, 2, 3},
        title |-> "Gross Scopes 1, 2, 3 and Total GHG emissions"],
       [ref |-> "E1-7", data_source |-> "management_input", auto_assessable |-> FALSE,
        check_categories |-> {}, check_scopes |-> {},
        title |-> "GHG removals and GHG mitigation projects"],
       [ref |-> "E1-8", data_source |-> "management_input", auto_assessable |-> FALSE,
        check_categories |-> {}, check_scopes |-> {},
        title |-> "Internal carbon pricing"],
       [ref |-> "E1-9", data_source |-> "management_input", auto_assessable |-> FALSE,
        check_categories |-> {}, check_scopes |-> {},
        title |-> "Anticipated financial effects from material physical and transition risks"] >>

\* if "check_categories" in req: found = mapped_categories & required;
\* emissions is the list of all EmissionRecords of the company
CategoryStatus(mapped_categories, emissions, required) ==
    LET found == mapped_categories \cap required
    IN  IF found # {} /\ emissions # {} THEN "met"
        ELSE IF found # {} THEN "partial"
        ELSE "gap"

\* an assessment that asks for two scopes, whichever they are
AnyTwoScopes(emission_scopes, required) ==
    LET found_scopes == emission_scopes \cap required
    IN  IF Cardinality(found_scopes) >= 2 THEN "met"
        ELSE IF found_scopes # {} THEN "partial"
        ELSE "gap"

\* elif "check_scopes" in req
ScopeStatus(emission_scopes, required) ==
    LET found_scopes == emission_scopes \cap required
    IN  IF Cardinality(found_scopes) >= 2
        THEN (IF 3 \in found_scopes THEN "met" ELSE "partial")
        ELSE IF found_scopes # {} THEN "partial"
        ELSE "gap"

\* status and notes of one requirement; the notes keep the text variant and
\* the set that the text lists
Assess(req, mapped_categories, emissions) ==
    LET emission_scopes == {e.scope : e \in emissions}
        status ==
            IF ~req.auto_assessable THEN "gap"
            ELSE IF req.check_categories # {}
            THEN CategoryStatus(mapped_categories, emissions, req.check_categories)
            ELSE IF req.check_scopes # {}
            THEN ScopeStatus(emission_scopes, req.check_scopes)
            ELSE "gap"
    IN  [ status |-> status,
          notes |->
              IF ~req.auto_assessable THEN [text |-> "management", listed |-> {}]
              ELSE IF req.check_categories # {}
              THEN [text |-> status,
                    listed |-> IF status = "gap" THEN req.check_categories
                               ELSE mapped_categories \cap req.check_categories]
              ELSE [text |-> status,
                    listed |-> emission_scopes \cap req.check_scopes] ]

\* an audit that adds a row for every assessment
InsertAlways(discs, company_id, req, a) ==
    discs (+) SetToBag({[ company_id |-> company_id, standard_ref |-> req.ref,
                          disclosure_title |-> req.title, status |-> a.status,
                          data_available |-> a.status \in {"met", "partial"},
                          gap_notes |-> a.notes ]})

\* the upsert of one assessment into esrs_disclosures
Upsert(discs, company_id, req, a) ==
    LET existing == {d \in BagToSet(discs) :
                        d.company_id = company_id /\ d.standard_ref = req.ref}
        first == CHOOSE d \in existing : TRUE
        updated == [first EXCEPT !.status = a.status, !.gap_notes = a.notes,
                                 !.data_available = a.status \in {"met", "partial"}]
        disc == [ company_id |-> company_id, standard_ref |-> req.ref,
                  disclosure_title |-> req.title, status |-> a.status,
                  data_available |-> a.status \in {"met", "partial"},
                  gap_notes |-> a.notes ]
    IN  IF existing # {}
        THEN (discs (-) SetToBag({first})) (+) SetToBag({updated})
        ELSE discs (+) SetToBag({disc})

RECURSIVE AuditLoop(_, _, _, _, _)
AuditLoop(discs, reqs, company_id, mapped_categories, emissions) ==
    IF reqs = <<>> THEN discs
    ELSE AuditLoop(Upsert(discs, company_id, Head(reqs),
                          Assess(Head(reqs), mapped_categories, emissions)),
                   Tail(reqs), company_id, mapped_categories, emissions)

\* st = [account_mappings, emissions_records, esrs_disclosures]
run_gap_audit(st, company_id) ==
    LET emissions == {e \in BagToSet(st.emissions_records) : e.company_id = company_id}
        mapped_categories ==
            {m.esg_category :
                m \in {x \in BagToSet(st.account_mappings) : x.company_id = company_id}}
    IN  [ esrs_disclosures |->
              AuditLoop(st.esrs_disclosures, ESRS_E1_REQUIREMENTS, company_id,
                        mapped_categories, emissions),
          result |->
              [i \in 1..Len(ESRS_E1_REQUIREMENTS) |->
                  LET req == ESRS_E1_REQUIREMENTS[i]
                      a == Assess(req, mapped_categories, emissions)
                  IN  [ref |-> req.ref, title |-> req.title, status |-> a.status,
                       notes |-> a.notes, data_source |-> req.data_source]] ]

\* scope_totals[scope] of generate_report: the sum of value_tco2e over the
\* rows of a bag of EmissionRecords that have the scope
RECURSIVE SumTco2e(_, _)
SumTco2e(b, scope) ==
    IF BagToSet(b) = {} THEN 0
    ELSE LET e == CHOOSE x \in BagToSet(b) : TRUE
             rest == SumTco2e([x \in BagToSet(b) \ {e} |-> b[x]], scope)
         IN  IF e.scope = scope THEN b[e] * e.value_tco2e + rest ELSE rest

\* period.replace("/", "-").replace("\\", "-")
SafePeriod(period) == ReplaceChar(ReplaceChar(period, "/", "-"), "\\", "-")

\* the number of assessments with a status
StatusCount(assessments, status) ==
    Cardinality({i \in 1..Len(assessments) : assessments[i].status = status})

\* the part of generate_report after the gap audit: audited is what
\* run_gap_audit left, period the label taken from emissions[0] ("N/A"
\* without records).  The value is the tables written, the document and the
\* returned path; the path is kept as company and safe period, the date of
\* the day left out.
ReportSteps(st, company_id, audited, period) ==
    LET emissions ==
            [e \in {x \in BagToSet(st.emissions_records) : x.company_id = company_id}
                |-> st.emissions_records[e]]
        mapping_count ==
            BagCardinality([m \in {x \in BagToSet(st.account_mappings) :
                                      x.company_id = company_id}
                               |-> st.account_mappings[m]])
        tx_count ==
            BagCardinality([t \in {x \in BagToSet(st.transactions) :
                                      x.company_id = company_id}
                               |-> st.transactions[t]])
        existing_count ==
            BagCardinality([r \in {x \in BagToSet(st.report_versions) :
                                      /\ x.company_id = company_id
                                      /\ x.report_type = "esrs_e1_gap"}
                               |-> st.report_versions[r]])
        filepath == [company_id |-> company_id, safe_period |-> SafePeriod(period)]
        report ==
            [ company_id |-> company_id, report_type |-> "esrs_e1_gap",
              version_number |-> existing_count + 1, status |-> "draft",
              file_path |-> filepath ]
        audit ==
            [ action |-> "report_generated", resource_type |-> "report",
              resource_id |-> filepath,
              details |-> [type |-> "esrs_e1_gap", version |-> existing_count + 1,
                           met |-> StatusCount(audited.result, "met"),
                           partial |-> StatusCount(audited.result, "partial"),
                           gap |-> StatusCount(audited.result, "gap")] ]
    IN  [ esrs_disclosures |-> audited.esrs_disclosures,
          report_versions |-> st.report_versions (+) SetToBag({report}),
          audit_log |-> st.audit_log (+) SetToBag({audit}),
          result |->
              [ status |-> "generated", file_path |-> filepath,
                document |->
                    [ period |-> period,
                      scope_totals |-> [s \in {1, 2, 3} |-> SumTco2e(emissions, s)],
                      total |-> SumTco2e(emissions, 1) + SumTco2e(emissions, 2)
                                    + SumTco2e(emissions, 3),
                      tx_count |-> tx_count, mapping_count |-> mapping_count,
                      assessments |-> audited.result ] ] ]

\* st = [companies, account_mappings, transactions, emissions_records,
\* esrs_disclosures, audit_log, report_versions]
generate_report(st, company_id, period) ==
    IF company_id \notin st.companies
    THEN [ esrs_disclosures |-> st.esrs_disclosures,
           report_versions |-> st.report_versions,
           audit_log |-> st.audit_log,
           result |-> [status |-> "not found", file_path |-> None] ]
    ELSE ReportSteps(st, company_id,
                     run_gap_audit([ account_mappings |-> st.account_mappings,
                                     emissions_records |-> st.emissions_records,
                                     esrs_disclosures |-> st.esrs_disclosures ],
                                   company_id),
                     period)

\* ------------------------------------------------------------------------
\* State
\* ------------------------------------------------------------------------
VARIABLES
    companies,            \* ids of the rows of table companies
    inbox,                \* data/inbox: file name -> content key or NoFile
    processed,            \* data/processed
    quarantine,           \* data/quarantine
    file_ingestion_log,   \* bag of FileIngestionLog rows
    transactions,         \* bag of Transaction rows
    suppliers,            \* bag of Supplier rows
    account_mappings,     \* bag of AccountMapping rows
    emissions_records,    \* bag of EmissionRecord rows
    esrs_disclosures,     \* bag of EsrsDisclosure rows
    audit_log,            \* bag of AuditLog rows
    report_versions,      \* bag of ReportVersion rows
    ingested,             \* contents ingest_file has been called on
    lastOp,               \* the call made by the last step
    result                \* what that call returned

vars == << companies, inbox, processed, quarantine, file_ingestion_log,
           transactions, suppliers, account_mappings, emissions_records,
           esrs_disclosures, audit_log, report_versions, ingested, lastOp,
           result >>

IngestDb ==
    [ file_ingestion_log |-> file_ingestion_log, transactions |-> transactions,
      suppliers |-> suppliers, audit_log |-> audit_log ]

Init ==
    /\ companies = {}
    /\ inbox = [n \in FileNames |-> NoFile]
    /\ processed = [n \in FileNames |-> NoFile]
    /\ quarantine = [n \in FileNames |-> NoFile]
    /\ file_ingestion_log = EmptyBag
    /\ transactions = EmptyBag
    /\ suppliers = EmptyBag
    /\ account_mappings = EmptyBag
    /\ emissions_records = EmptyBag
    /\ esrs_disclosures = EmptyBag
    /\ audit_log = EmptyBag
    /\ report_versions = EmptyBag
    /\ ingested = {}
    /\ lastOp = [op |-> "init"]
    /\ result = [status |-> "none"]

\* run_pipeline.create_company: a new row in companies, autoincrement id
CreateCompany ==
    /\ Cardinality(companies) < Cardinality(CompanyIds)
    /\ companies' = companies \cup {Cardinality(companies) + 1}
    /\ lastOp' = [op |-> "create_company"]
    /\ result' = [status |-> "created"]
    /\ UNCHANGED << inbox, processed, quarantine, file_ingestion_log,
                    transactions, suppliers, account_mappings, emissions_records,
                    esrs_disclosures, audit_log, ingested,
                    report_versions >>

\* the operator puts a CSV export into data/inbox under a name that is free
DropFile(n, k) ==
    /\ inbox[n] = NoFile
    /\ inbox' = [inbox EXCEPT ![n] = k]
    /\ lastOp' = [op |-> "drop_file"]
    /\ result' = [status |-> "dropped"]
    /\ UNCHANGED << companies, processed, quarantine, file_ingestion_log,
                    transactions, suppliers, account_mappings, emissions_records,
                    esrs_disclosures, audit_log, ingested,
                    report_versions >>

\* the store as the ingestion left it and what the call returned
IngestDone(db, returned) ==
    /\ BagCardinality(db.file_ingestion_log) <= MaxLog
    /\ file_ingestion_log' = db.file_ingestion_log
    /\ transactions' = db.transactions
    /\ suppliers' = db.suppliers
    /\ audit_log' = db.audit_log
    /\ result' = returned

\* what ingest_file leaves: r = [db, result]
IngestFileDone(r) == IngestDone(r.db, r.result)

\* ingest_file(path of inbox file n, company_id)
IngestFile(n, company_id) ==
    /\ inbox[n] # NoFile
    /\ company_id \in companies
    /\ IngestFileDone(ingest_file(IngestDb, n, inbox[n], company_id))
    /\ ingested' = ingested \cup {inbox[n]}
    /\ lastOp' = [op |-> "ingest_file", file |-> n, content |-> inbox[n],
                  company_id |-> company_id]
    /\ UNCHANGED << companies, inbox, processed, quarantine, account_mappings,
                    emissions_records, esrs_disclosures,
                    report_versions >>

\* csv_files = sorted(Path(inbox).glob("*.csv")), taken before the loop
Listing == SelectSeq(SortedNames, LAMBDA n : inbox[n] # NoFile)

\* what ingest_all_from_inbox leaves: st = [db, inbox, processed, results]
IngestInboxDone(st) ==
    /\ IngestDone(st.db, [status |-> "done", results |-> st.results])
    /\ inbox' = st.inbox
    /\ processed' = st.processed

\* ingest_all_from_inbox(company_id)
IngestInbox(company_id) ==
    /\ company_id \in companies
    /\ IngestInboxDone(InboxLoop([db |-> IngestDb, inbox |-> inbox,
                                  processed |-> processed, results |-> <<>>],
                                 Listing, company_id))
    /\ ingested' = ingested \cup {inbox[n] : n \in {m \in FileNames : inbox[m] # NoFile}}
    /\ lastOp' = [op |-> "ingest_all_from_inbox", company_id |-> company_id,
                  listing |-> [i \in 1..Len(Listing) |->
                                  [file |-> Listing[i], content |-> inbox[Listing[i]]]]]
    /\ UNCHANGED << companies, quarantine, account_mappings, emissions_records,
                    esrs_disclosures,
                    report_versions >>

\* map_accounts_auto(company_id): every unmapped account gets the mapping of
\* the suggestion found for it; answers is what classify_with_claude may
\* return
MapAccountsAutoFrom(company_id, answers) ==
    LET unmapped == get_unmapped_accounts(transactions, account_mappings, company_id)
    IN  /\ \E f \in [unmapped -> answers
                                 \cup UNION {check_mapping_library(account_mappings, a) :
                                                a \in unmapped}] :
              /\ \A a \in unmapped :
                    f[a] \in SuggestionsFrom(account_mappings, a, 80, answers)
              /\ account_mappings' =
                     account_mappings
                     (+) SetToBag({AutoMapping(company_id, a, f[a]) : a \in unmapped})
        /\ lastOp' = [op |-> "map_accounts_auto", company_id |-> company_id]
        /\ result' = [status |-> "complete", mapped |-> Cardinality(unmapped)]
        /\ UNCHANGED << companies, inbox, processed, quarantine, file_ingestion_log,
                        transactions, suppliers, emissions_records,
                        esrs_disclosures, audit_log, ingested,
                        report_versions >>

\* map_accounts_interactive(company_id): every unmapped account gets the
\* mapping of its suggestion and of the text typed at the prompt; answers is
\* what classify_with_claude may return, choices what may be typed
MapAccountsInteractive(company_id, answers, choices) ==
    LET unmapped == get_unmapped_accounts(transactions, account_mappings, company_id)
    IN  /\ IF company_id \notin companies
           THEN /\ UNCHANGED << account_mappings, audit_log >>
                /\ result' = [error |-> "Company not found"]
           ELSE \E f \in [unmapped -> answers
                                      \cup UNION {check_mapping_library(account_mappings, a) :
                                                     a \in unmapped}],
                   g \in [unmapped -> choices] :
                   /\ \A a \in unmapped :
                         /\ f[a] \in SuggestionsFrom(account_mappings, a, 90, answers)
                         /\ (f[a].confidence >= 90 /\ f[a].source # "no_api_key")
                                => g[a] = DefaultChoice
                   /\ account_mappings' =
                          account_mappings
                          (+) SetToBag({InteractiveMapping(company_id, a, f[a], g[a]) :
                                           a \in unmapped})
                   /\ audit_log' =
                          audit_log
                          (+) SetToBag({MappingAudit(
                                            InteractiveMapping(company_id, a, f[a], g[a])) :
                                           a \in unmapped})
                   /\ result' =
                          [ status |-> "complete", mapped |-> Cardinality(unmapped),
                            auto_accepted |->
                                Cardinality({a \in unmapped :
                                                /\ f[a].confidence >= 90
                                                /\ f[a].source # "no_api_key"}),
                            human_confirmed |->
                                Cardinality({a \in unmapped :
                                                \/ f[a].confidence < 90
                                                \/ f[a].source = "no_api_key"}) ]
        /\ lastOp' = [op |-> "map_accounts_interactive", company_id |-> company_id]
        /\ UNCHANGED << companies, inbox, processed, quarantine, file_ingestion_log,
                        transactions, suppliers, emissions_records,
                        esrs_disclosures, ingested, report_versions >>

\* map_accounts_auto with the classifier answers of the pipeline runs
MapAccountsAuto(company_id) == MapAccountsAutoFrom(company_id, ClassifierAnswers)

\* the period arguments calculate_emissions is called with
PeriodArgs == { None, <<"2","0","2","4">> }

CalcAudits ==
    BagCardinality([a \in {x \in BagToSet(audit_log) :
                              x.action = "emissions_calculated"} |-> audit_log[a]])

\* calculate_emissions(company_id, period)
CalculateEmissions(company_id, period) ==
    LET r == calculate_emissions(
                 [ companies |-> companies, account_mappings |-> account_mappings,
                   transactions |-> transactions,
                   emissions_records |-> emissions_records,
                   audit_log |-> audit_log ], company_id, period)
    IN  /\ r.audit_log = audit_log \/ CalcAudits < MaxCalcAudit
        /\ emissions_records' = r.emissions_records
        /\ audit_log' = r.audit_log
        /\ result' = r.result
        /\ lastOp' = [op |-> "calculate_emissions", company_id |-> company_id,
                      period |-> period]
        /\ UNCHANGED << companies, inbox, processed, quarantine, file_ingestion_log,
                        transactions, suppliers, account_mappings, esrs_disclosures,
                        ingested,
                        report_versions >>

\* run_gap_audit(company_id)
RunGapAudit(company_id) ==
    LET r == run_gap_audit(
                 [ account_mappings |-> account_mappings,
                   emissions_records |-> emissions_records,
                   esrs_disclosures |-> esrs_disclosures ], company_id)
    IN  /\ esrs_disclosures' = r.esrs_disclosures
        /\ result' = [status |-> "done", assessments |-> r.result]
        /\ lastOp' = [op |-> "run_gap_audit", company_id |-> company_id]
        /\ UNCHANGED << companies, inbox, processed, quarantine, file_ingestion_log,
                        transactions, suppliers, account_mappings,
                        emissions_records, audit_log, ingested,
                        report_versions >>

\* the number of ReportVersion rows up to which reports are generated
MaxReports == 2

\* period = emissions[0].period if emissions else "N/A": the query has no
\* ORDER BY, so the first row is any EmissionRecord of the company
FirstPeriods(company_id) ==
    LET own == {e \in BagToSet(emissions_records) : e.company_id = company_id}
    IN  IF own = {} THEN {<<"N","/","A">>} ELSE {e.period : e \in own}

\* what generate_report leaves: r = [esrs_disclosures, report_versions,
\* audit_log, result]
GenerateReportDone(r) ==
    /\ BagCardinality(r.report_versions) <= MaxReports
    /\ esrs_disclosures' = r.esrs_disclosures
    /\ report_versions' = r.report_versions
    /\ audit_log' = r.audit_log
    /\ result' = r.result

\* generate_report(company_id)
GenerateReport(company_id) ==
    /\ \E period \in FirstPeriods(company_id) :
          GenerateReportDone(generate_report(
              [ companies |-> companies, account_mappings |-> account_mappings,
                transactions |-> transactions,
                emissions_records |-> emissions_records,
                esrs_disclosures |-> esrs_disclosures, audit_log |-> audit_log,
                report_versions |-> report_versions ], company_id, period))
    /\ lastOp' = [op |-> "generate_report", company_id |-> company_id]
    /\ UNCHANGED << companies, inbox, processed, quarantine, file_ingestion_log,
                    transactions, suppliers, account_mappings, emissions_records,
                    ingested >>

\* ------------------------------------------------------------------------
\* Specifications
\* ------------------------------------------------------------------------
\* the ledger files, the file name and the company of the pipeline run
LedgerContents == {"k_fibu3", "k_ws"}
PipelineFile == "a.csv"
PipelineCompany == 1

\* run_pipeline.main: ingestion, mapping, emissions, gap audit of one company
Next ==
    \/ (companies = {} /\ CreateCompany)
    \/ \E k \in LedgerContents : DropFile(PipelineFile, k)
    \/ IngestInbox(PipelineCompany)
    \/ MapAccountsAuto(PipelineCompany)
    \/ \E p \in PeriodArgs : CalculateEmissions(PipelineCompany, p)
    \/ RunGapAudit(PipelineCompany)

Spec == Init /\ [][Next]_vars

\* the files of the ingestion runs: the ledgers of the pipeline run, the
\* files that fail and the supplier file
IngestContents ==
    {"k_fibu3", "k_ws", "k_noamount", "k_noaccount", "k_twocol", "k_hdronly", "k_wawi"}

\* the ingestion agent alone
NextIngest ==
    \/ CreateCompany
    \/ \E n \in FileNames, k \in IngestContents : DropFile(n, k)
    \/ \E n \in FileNames, c \in CompanyIds : IngestFile(n, c)
    \/ \E c \in CompanyIds : IngestInbox(c)

SpecIngest == Init /\ [][NextIngest]_vars

\* ledgers booked in 2023, in 2024 and without a readable date
PeriodContents == {"k_ws", "k_y24", "k_nodate"}

\* ingestion, mapping and emissions of one company over those ledgers
NextPeriods ==
    \/ (companies = {} /\ CreateCompany)
    \/ \E k \in PeriodContents : DropFile(PipelineFile, k)
    \/ IngestInbox(PipelineCompany)
    \/ MapAccountsAuto(PipelineCompany)
    \/ \E p \in PeriodArgs : CalculateEmissions(PipelineCompany, p)

SpecPeriods == Init /\ [][NextPeriods]_vars

\* ------------------------------------------------------------------------
\* Properties of the ingestion agent (checked under SpecIngest)
\* ------------------------------------------------------------------------
\* C1: once ingest_file has been called on a file with some content, a later
\* ingest_file call on a file with the same content, under the same or under
\* another name, returns status "duplicate" and adds no Transaction, Supplier
\* or FileIngestionLog row.  The calls ingest_all_from_inbox makes are held
\* to the same: a listed file is a repetition when its content was ingested
\* before the call or stands earlier in the listing.
C1_SecondIngestIsDuplicate ==
    [][ /\ (lastOp'.op = "ingest_file" /\ lastOp'.content \in ingested)
            => /\ result'.status = "duplicate"
               /\ transactions' = transactions
               /\ suppliers' = suppliers
               /\ file_ingestion_log' = file_ingestion_log
        /\ lastOp'.op = "ingest_all_from_inbox"
            => LET L == lastOp'.listing
                   again(i) == \/ L[i].content \in ingested
                               \/ \E j \in 1..(i - 1) : L[j].content = L[i].content
               IN  /\ \A i \in 1..Len(L) :
                         again(i) => result'.results[i].result.status = "duplicate"
                   /\ (\A i \in 1..Len(L) : again(i))
                         => /\ transactions' = transactions
                            /\ suppliers' = suppliers
                            /\ file_ingestion_log' = file_ingestion_log
      ]_vars

\* a duplicate was returned for a file whose content is logged under another
\* file name
C1_Witness ==
    /\ lastOp.op = "ingest_file"
    /\ result.status = "duplicate"
    /\ \E l \in BagToSet(file_ingestion_log) :
          /\ l.file_hash = compute_file_hash(lastOp.file, lastOp.content)
          /\ l.file_name # lastOp.file

\* C2: when ingest_file parses a ledger file of N data rows of which K have
\* an empty account field, it reports rows_valid = N - K and
\* rows_quarantined = K and persists N - K Transaction rows
C2_EmptyAccountQuarantined ==
    [][ ( /\ lastOp'.op = "ingest_file"
          /\ result'.status = "success"
          /\ result'.file_type # "WAWI"
          /\ result'.error = NULL )
        => LET lines == Catalogue[lastOp'.content].lines
               sep == Delimiters[ParseStage[lastOp'.content].sepIx]
               header == Split(lines[1], sep)
               col == CHOOSE c \in 1..Len(header) :
                          header[c] = find_column(header, FIBU_FIELD_VARIANTS.account)
               field(i) == LET fs == Split(lines[i], sep)
                           IN  IF col <= Len(fs) THEN fs[col] ELSE <<>>
               N == Len(lines) - 1
               K == Cardinality({i \in 2..Len(lines) : Strip(field(i)) = <<>>})
           IN  /\ result'.rows_valid = N - K
               /\ result'.rows_quarantined = K
               /\ BagCardinality(transactions') = BagCardinality(transactions) + (N - K)
      ]_vars

\* C3: a ledger file without a column of an accepted amount spelling, or
\* without one of an accepted account spelling, gets a FileIngestionLog row
\* of status "failed" that carries the error message, and adds no
\* Transaction row
C3_MissingColumnFails ==
    [][ ( /\ lastOp'.op = "ingest_file"
          /\ lastOp'.content \notin ingested
          /\ LET st == ParseStage[lastOp'.content]
                 spelled(variants) ==
                     \E c \in 1..Len(st.df.columns), v \in 1..Len(variants) :
                         Strip(Lower(st.df.columns[c])) = Lower(variants[v])
             IN  /\ st.sepIx # 0
                 /\ st.file_type # "WAWI"
                 /\ \/ ~spelled(FIBU_FIELD_VARIANTS.amount)
                    \/ ~spelled(FIBU_FIELD_VARIANTS.account) )
        => /\ \E l \in BagToSet(file_ingestion_log') :
                 /\ l.file_hash = compute_file_hash(lastOp'.file, lastOp'.content)
                 /\ l.status = "failed"
                 /\ l.error_message \in {"Could not find amount column",
                                         "Could not find account number column"}
                 /\ l.error_message = result'.error
           /\ transactions' = transactions
      ]_vars

\* the file without an amount column was ingested and is logged as failed
C3_Witness ==
    /\ lastOp.op = "ingest_file"
    /\ lastOp.content = "k_noamount"
    /\ result.error = "Could not find amount column"
    /\ \E l \in BagToSet(file_ingestion_log) :
          /\ l.file_hash = compute_file_hash(lastOp.file, lastOp.content)
          /\ l.status = "failed"
          /\ l.error_message = "Could not find amount column"

\* the rows_valid of the rows of a bag of FileIngestionLog rows, added up
RECURSIVE LoggedValid(_)
LoggedValid(b) ==
    IF BagToSet(b) = {} THEN 0
    ELSE LET l == CHOOSE x \in BagToSet(b) : TRUE
         IN  b[l] * l.rows_valid + LoggedValid([x \in BagToSet(b) \ {l} |-> b[x]])

\* C6: the FileIngestionLog holds at most one row per content hash, and a
\* file whose hash is logged is not parsed or persisted again: the row of a
\* logged hash stays as it is, and the Transaction and Supplier rows a step
\* adds are the valid rows of the log rows the step adds
C6_OneLogRowPerHash ==
    [][ /\ \A l \in BagToSet(file_ingestion_log') :
              BagCardinality([x \in {y \in BagToSet(file_ingestion_log') :
                                        y.file_hash = l.file_hash}
                                 |-> file_ingestion_log'[x]]) = 1
        /\ \A l \in BagToSet(file_ingestion_log) : l \in BagToSet(file_ingestion_log')
        /\ BagCardinality(transactions') + BagCardinality(suppliers')
             = BagCardinality(transactions) + BagCardinality(suppliers)
               + LoggedValid(file_ingestion_log' (-) file_ingestion_log)
      ]_vars

\* a listing of two files of the same content was run: one log row, the
\* second file reported as a duplicate
C6_Witness ==
    /\ lastOp.op = "ingest_all_from_inbox"
    /\ Len(lastOp.listing) = 2
    /\ lastOp.listing[1].content = lastOp.listing[2].content
    /\ result.results[2].result.status = "duplicate"
    /\ BagCardinality(file_ingestion_log) = 1
    /\ BagCardinality(transactions) > 0

\* C7: when none of the three delimiters yields more than two columns,
\* ingest_file writes a FileIngestionLog row of status "failed" and no
\* Transaction or Supplier row, returns status "failed", and the file is
\* moved from the inbox to the quarantine folder
C7_UnparsableFileQuarantined ==
    [][ ( /\ lastOp'.op = "ingest_file"
          /\ lastOp'.content \notin ingested
          /\ \A i \in 1..Len(Delimiters) :
                LET df == read_csv(lastOp'.content, Delimiters[i])
                IN  df.raised \/ Len(df.columns) <= 2 )
        => /\ result'.status = "failed"
           /\ \E l \in BagToSet(file_ingestion_log') :
                 /\ l.file_hash = compute_file_hash(lastOp'.file, lastOp'.content)
                 /\ l.status = "failed"
           /\ transactions' = transactions
           /\ suppliers' = suppliers
           /\ inbox'[lastOp'.file] = NoFile
           /\ quarantine'[lastOp'.file] = lastOp'.content
      ]_vars

\* C8: ingest_all_from_inbox moves a file from the inbox to the processed
\* folder exactly when the ingestion of the file succeeded, that is when the
\* call logged the file with status "success"; a file whose ingestion failed
\* (parse failure, missing column, no valid row) or that is a duplicate stays
\* in the inbox
C8_MovedOnlyOnSuccess ==
    [][ lastOp'.op = "ingest_all_from_inbox"
        => \A i \in 1..Len(lastOp'.listing) :
              LET f == lastOp'.listing[i]
                  succeeded ==
                      \E l \in BagToSet(file_ingestion_log' (-) file_ingestion_log) :
                          /\ l.file_hash = compute_file_hash(f.file, f.content)
                          /\ l.status = "success"
                          /\ \A j \in 1..(i - 1) :
                                lastOp'.listing[j].content # f.content
              IN  IF succeeded
                  THEN inbox'[f.file] = NoFile /\ processed'[f.file] = f.content
                  ELSE inbox'[f.file] = f.content /\ processed'[f.file] = processed[f.file]
      ]_vars

\* ------------------------------------------------------------------------
\* Properties of the emissions agent and of the gap audit (checked under
\* Spec)
\* ------------------------------------------------------------------------
\* C4: calculate_emissions is idempotent: called a second time for the same
\* company and period with nothing done in between, it leaves the
\* EmissionRecord rows (their number, categories and values) that the first
\* call left, and returns what the first call returned
C4_CalculateIdempotent ==
    [][ ( /\ lastOp.op = "calculate_emissions"
          /\ lastOp'.op = "calculate_emissions"
          /\ lastOp'.company_id = lastOp.company_id
          /\ lastOp'.period = lastOp.period )
        => /\ emissions_records' = emissions_records
           /\ result' = result
      ]_vars

\* the calculation has run twice with the same outcome for the same period,
\* and left records
C4_Witness ==
    /\ lastOp.op = "calculate_emissions"
    /\ result.status = "complete"
    /\ Len(result.details) > 0
    /\ \E a \in BagToSet(audit_log) :
          /\ a.action = "emissions_calculated"
          /\ a.details.period = result.period
          /\ audit_log[a] = 2

\* C5: after a successful calculate_emissions the EmissionRecord rows of the
\* company and period are exactly the records this call computed: one row
\* per category of the returned details, with the scope, spend and rounded
\* emissions of that detail, and no row of an earlier run
C5_PeriodRecordsReplaced ==
    (lastOp.op = "calculate_emissions" /\ result.status = "complete")
    => LET part == {e \in BagToSet(emissions_records) :
                       e.company_id = lastOp.company_id /\ e.period = result.period}
       IN  /\ \A e \in part : emissions_records[e] = 1
           /\ Cardinality(part) = Len(result.details)
           /\ \A i \in 1..Len(result.details) :
                 \E e \in part :
                     /\ e.category = result.details[i].category
                     /\ e.scope = result.details[i].scope
                     /\ e.calculation_method.spend_eur = result.details[i].spend_eur
                     /\ e.value_tco2e = RatRound(result.details[i].emissions_tco2e)

\* a period was calculated a second time with another outcome than the
\* first time
C5_Witness ==
    /\ lastOp.op = "calculate_emissions"
    /\ result.status = "complete"
    /\ Len(result.details) > 1
    /\ \E a, b \in BagToSet(audit_log) :
          /\ a.action = "emissions_calculated"
          /\ b.action = "emissions_calculated"
          /\ a.details.period = result.period
          /\ b.details.period = result.period
          /\ a # b
          /\ \E s \in {a.details.scope1, a.details.scope2, a.details.scope3} : s # 0
          /\ \E s \in {b.details.scope1, b.details.scope2, b.details.scope3} : s # 0

\* C9: run_gap_audit assesses the E1-5 category item as "met" exactly when a
\* required category is mapped for the company and an EmissionRecord of the
\* company exists for that category, as "partial" when a required category is
\* mapped but none of the mapped ones has such a record, and as "gap" when no
\* required category is mapped
C9_CategoryItemStatus ==
    lastOp.op = "run_gap_audit"
    => LET required == {"energy_electricity", "energy_gas"}
           mapped == {m.esg_category :
                         m \in {x \in BagToSet(account_mappings) :
                                   x.company_id = lastOp.company_id}} \cap required
           computed == {c \in mapped :
                           \E e \in BagToSet(emissions_records) :
                               e.company_id = lastOp.company_id /\ e.category = c}
           expected == IF computed # {} THEN "met"
                       ELSE IF mapped # {} THEN "partial"
                       ELSE "gap"
       IN  /\ \A i \in 1..Len(result.assessments) :
                 result.assessments[i].ref = "E1-5"
                     => result.assessments[i].status = expected
           /\ \A d \in BagToSet(esrs_disclosures) :
                 (d.company_id = lastOp.company_id /\ d.standard_ref = "E1-5")
                     => d.status = expected

\* C10: run_gap_audit assesses the E1-6 scope item from the set S of scopes
\* that the EmissionRecord rows of the company have: "met" iff S has at least
\* two scopes and scope 3 is one of them, "gap" iff S is empty, "partial"
\* otherwise
C10_ScopeItemStatus ==
    lastOp.op = "run_gap_audit"
    => LET S == {e.scope : e \in {x \in BagToSet(emissions_records) :
                                     x.company_id = lastOp.company_id}}
           expected == IF Cardinality(S) >= 2 /\ 3 \in S THEN "met"
                       ELSE IF S # {} THEN "partial"
                       ELSE "gap"
       IN  /\ \A i \in 1..Len(result.assessments) :
                 result.assessments[i].ref = "E1-6"
                     => result.assessments[i].status = expected
           /\ \A d \in BagToSet(esrs_disclosures) :
                 (d.company_id = lastOp.company_id /\ d.standard_ref = "E1-6")
                     => d.status = expected
           /\ \E d \in BagToSet(esrs_disclosures) :
                 d.company_id = lastOp.company_id /\ d.standard_ref = "E1-6"

\* the audit ran over records of scopes 1 and 2 only and found the item
\* partial
C10_Witness ==
    /\ lastOp.op = "run_gap_audit"
    /\ {e.scope : e \in BagToSet(emissions_records)} = {1, 2}
    /\ \E d \in BagToSet(esrs_disclosures) :
          d.standard_ref = "E1-6" /\ d.status = "partial"

\* ------------------------------------------------------------------------
\* Properties of the emissions arithmetic (checked under Spec)
\* ------------------------------------------------------------------------
\* v is one of the integers nearest to n / d
IsNearest(v, n, d) == 2 * (v * d - n) <= d /\ 2 * (n - v * d) <= d

\* C11: for each category of the conversion table with positive aggregated
\* spend the persisted EmissionRecord has quantity = spend / price-per-unit
\* rounded to 2 decimals, tonnes CO2e = spend / price-per-unit x factor / 1000
\* rounded to 4 decimals, and factor, scope, source and vintage of the factor
\* entry that the conversion entry names; spend 1000.00 at price 0.22 and
\* factor 0.071 gives quantity 4545.45 and 0.3227 t
C11_RecordArithmetic ==
    (lastOp.op = "calculate_emissions" /\ result.status = "complete")
    => /\ \A c \in (DOMAIN PRICE_CONVERSIONS) \cap (DOMAIN result.category_spend) :
             result.category_spend[c] > 0
             => \E e \in BagToSet(emissions_records) :
                   LET spend == result.category_spend[c]
                       price == PRICE_CONVERSIONS[c].eur_per_unit
                       f == EMISSION_FACTORS[PRICE_CONVERSIONS[c].factor_key]
                   IN  /\ e.company_id = lastOp.company_id
                       /\ e.period = result.period
                       /\ e.category = c
                       /\ IsNearest(e.quantity, spend * 100, price)
                       /\ IsNearest(e.value_tco2e, spend * f.factor, price * 100)
                       /\ e.emission_factor_used = f.factor
                       /\ e.scope = f.scope
                       /\ e.factor_source = f.source
                       /\ e.factor_vintage = f.vintage
       /\ \A e \in BagToSet(emissions_records) :
             (e.category = "energy_electricity"
                 /\ e.calculation_method.spend_eur = 100000)
             => e.quantity = 454545 /\ e.value_tco2e = 3227

\* electricity of 1000.00 EUR was converted
C11_Witness ==
    /\ lastOp.op = "calculate_emissions"
    /\ result.status = "complete"
    /\ \E e \in BagToSet(emissions_records) :
          /\ e.category = "energy_electricity"
          /\ e.period = result.period
          /\ e.calculation_method.spend_eur = 100000
          /\ e.quantity = 454545
          /\ e.value_tco2e = 3227
          /\ e.scope = 2

\* the transactions of the company that the last calculate_emissions call
\* selected: all of them, or those whose date starts with the period given
CalcSelected ==
    {t \in BagToSet(transactions) :
        /\ t.company_id = lastOp.company_id
        /\ (lastOp.period = None
               \/ (/\ Len(t.date) >= Len(lastOp.period)
                   /\ \A i \in 1..Len(lastOp.period) : t.date[i] = lastOp.period[i]))}

\* the category the company's mappings give an account, "other" without one
CalcCategory(account_number) ==
    IF \E m \in BagToSet(account_mappings) :
          m.company_id = lastOp.company_id /\ m.account_number = account_number
    THEN (CHOOSE m \in BagToSet(account_mappings) :
             m.company_id = lastOp.company_id /\ m.account_number = account_number
         ).esg_category
    ELSE "other"

\* the amounts above zero of the selected transactions of a category, added up
CalcSpend(c) ==
    SumAmounts([t \in {x \in CalcSelected :
                          x.amount_eur > 0 /\ CalcCategory(x.account_number) = c}
                   |-> transactions[t]])

\* C12: the spend calculate_emissions aggregates for a category is the sum
\* of the amounts of the selected transactions whose amount is above zero
\* and whose account maps to the category, an account without mapping
\* counting as "other"; credits and zero amounts change no category's spend
C12_SpendIsPositiveSum ==
    (lastOp.op = "calculate_emissions" /\ result.status = "complete")
    => /\ DOMAIN result.category_spend \subseteq ESG_CATEGORIES
       /\ \A c \in ESG_CATEGORIES :
             IF CalcSpend(c) > 0
             THEN c \in DOMAIN result.category_spend
                  /\ result.category_spend[c] = CalcSpend(c)
             ELSE c \notin DOMAIN result.category_spend

\* a credit, a zero amount and an account without mapping were among the
\* selected transactions, and two transactions were added up
C12_Witness ==
    /\ lastOp.op = "calculate_emissions"
    /\ result.status = "complete"
    /\ \E t \in CalcSelected : t.amount_eur < 0
    /\ \E t \in CalcSelected : t.amount_eur = 0
    /\ "other" \in DOMAIN result.category_spend
    /\ \E c \in DOMAIN result.category_spend :
          \E t, u \in CalcSelected :
              /\ t # u /\ t.amount_eur > 0 /\ u.amount_eur > 0
              /\ CalcCategory(t.account_number) = c
              /\ CalcCategory(u.account_number) = c

\* the tonnes CO2e (in 1e-4 t, before rounding) of the categories of the
\* conversion table with spend whose factor entry is of the scope
C13_ScopeSum(scope) ==
    LET term(c) ==
            LET f == EMISSION_FACTORS[PRICE_CONVERSIONS[c].factor_key]
            IN  IF CalcSpend(c) > 0 /\ f.scope = scope
                THEN RatOf(CalcSpend(c) * f.factor,
                           PRICE_CONVERSIONS[c].eur_per_unit * 100)
                ELSE RatZero
    IN  RatAdd(RatAdd(term("energy_electricity"), term("energy_gas")),
               RatAdd(term("fuel"), term("logistics")))

\* C13: calculate_emissions persists an EmissionRecord for a category if and
\* only if the category is a key of the conversion table and its aggregated
\* positive spend is above zero; a category with spend that is not in the
\* conversion table (such as "other") gets no record and adds nothing to a
\* scope total
C13_RecordIffConvertible ==
    (lastOp.op = "calculate_emissions" /\ result.status = "complete")
    => /\ { e.category : e \in {x \in BagToSet(emissions_records) :
                                   /\ x.company_id = lastOp.company_id
                                   /\ x.period = result.period} }
            = {c \in DOMAIN PRICE_CONVERSIONS : CalcSpend(c) > 0}
       /\ { result.details[i].category : i \in 1..Len(result.details) }
            = {c \in DOMAIN PRICE_CONVERSIONS : CalcSpend(c) > 0}
       /\ result.scope_1_tco2e = RatRound(C13_ScopeSum(1))
       /\ result.scope_2_tco2e = RatRound(C13_ScopeSum(2))
       /\ result.scope_3_tco2e = RatRound(C13_ScopeSum(3))
       /\ result.total_tco2e =
              RatRound(RatAdd(C13_ScopeSum(1),
                              RatAdd(C13_ScopeSum(2), C13_ScopeSum(3))))

\* money was spent on "other" and on a category of the conversion table:
\* the one has a record, the other has none
C13_Witness ==
    /\ lastOp.op = "calculate_emissions"
    /\ result.status = "complete"
    /\ "other" \in DOMAIN result.category_spend
    /\ result.category_spend["other"] > 0
    /\ \E e \in BagToSet(emissions_records) :
          e.period = result.period /\ e.category = "energy_gas"
    /\ ~\E e \in BagToSet(emissions_records) :
          e.category \notin DOMAIN PRICE_CONVERSIONS
    /\ result.total_tco2e > 0

\* C14: calculate_emissions returns a named error instead of raising, the
\* preconditions checked in this order: "Company not found" when the company
\* does not exist, "No mappings" when it has no account mapping, "No
\* transactions" when none of its transactions matches the period filter;
\* in each of these cases no EmissionRecord is deleted or inserted, and in
\* no other case an error is returned
C14_NamedErrors ==
    [][ lastOp'.op = "calculate_emissions"
        => LET c == lastOp'.company_id
               p == lastOp'.period
               matches(t) == \/ p = None
                             \/ /\ Len(t.date) >= Len(p)
                                /\ \A i \in 1..Len(p) : t.date[i] = p[i]
               expected ==
                   IF c \notin companies THEN "Company not found"
                   ELSE IF ~\E m \in BagToSet(account_mappings) : m.company_id = c
                   THEN "No mappings"
                   ELSE IF ~\E t \in BagToSet(transactions) :
                              t.company_id = c /\ matches(t)
                   THEN "No transactions"
                   ELSE NULL
           IN  IF expected # NULL
               THEN /\ result'.keys = {"error"}
                    /\ result'.error = expected
                    /\ emissions_records' = emissions_records
               ELSE /\ result'.error = NULL
                    /\ result'.status = "complete"
      ]_vars

\* "No transactions" was returned for a period without bookings while
\* records of an earlier run of the company were in the store, and they are
\* still there
C14_Witness ==
    /\ lastOp.op = "calculate_emissions"
    /\ result.error = "No transactions"
    /\ lastOp.period # None
    /\ \E e \in BagToSet(emissions_records) : e.company_id = lastOp.company_id

\* ------------------------------------------------------------------------
\* Properties of the period label (checked under SpecPeriods)
\* ------------------------------------------------------------------------
\* the years of the dates of the company's transactions, the sentinel date
\* left out
C15_Years ==
    { SubSeq(t.date, 1, 4) :
        t \in {x \in BagToSet(transactions) :
                  x.company_id = lastOp.company_id /\ x.date # SentinelDate} }

\* the place of a year among C15_Years in ascending order
C15_Rank(y) == 1 + Cardinality({z \in C15_Years : DigitsVal(z) < DigitsVal(y)})

\* C15: without a period argument the period label is derived from the
\* distinct years of the transaction dates, the sentinel date 1900-01-01
\* ignored: one year gives that year, several years give the years in
\* ascending order joined by "-", no usable date gives "unknown"; with a
\* period argument the label is the argument and only the transactions whose
\* date starts with it are used
C15_PeriodLabel ==
    (lastOp.op = "calculate_emissions" /\ result.status = "complete")
    => /\ lastOp.period = None
            => IF C15_Years = {}
               THEN result.period = <<"u","n","k","n","o","w","n">>
               ELSE /\ Len(result.period) = 5 * Cardinality(C15_Years) - 1
                    /\ \A y \in C15_Years :
                          SubSeq(result.period, 5 * C15_Rank(y) - 4, 5 * C15_Rank(y) - 1)
                              = y
                    /\ \A k \in 1..(Cardinality(C15_Years) - 1) :
                          result.period[5 * k] = "-"
       /\ lastOp.period # None => result.period = lastOp.period
       /\ DOMAIN result.category_spend = {c \in ESG_CATEGORIES : CalcSpend(c) > 0}
       /\ \A c \in DOMAIN result.category_spend :
             result.category_spend[c] = CalcSpend(c)
       /\ \A i \in 1..Len(result.details) :
             \E e \in BagToSet(emissions_records) :
                 e.category = result.details[i].category /\ e.period = result.period

\* bookings of two years gave a label of the two years in ascending order
C15_Witness ==
    /\ lastOp.op = "calculate_emissions"
    /\ lastOp.period = None
    /\ result.status = "complete"
    /\ result.period = <<"2","0","2","3","-","2","0","2","4">>

\* ------------------------------------------------------------------------
\* The normalization and schema helpers of agent1_ingest.py, applied to
\* arguments drawn from bounded sets
\* ------------------------------------------------------------------------
\* length of the texts over NumberAlphabet given to parse_austrian_number
MaxNumLen == 3

\* all sequences over a set, up to a length
RECURSIVE SeqsUpTo(_, _)
SeqsUpTo(S, n) ==
    IF n = 0 THEN {<<>>}
    ELSE LET shorter == SeqsUpTo(S, n - 1)
         IN  shorter \cup {Append(s, x) : s \in {t \in shorter : Len(t) = n - 1}, x \in S}

\* day.month.year texts with one- and two-digit days and months, years of
\* two, three, four and five digits, and what may follow the date
DayTexts == {<<"5">>, <<"0","5">>, <<"3","1">>}
MonthTexts == {<<"3">>, <<"0","3">>}
YearTexts == {<<"2","0","2","4">>, <<"2","4">>, <<"4","9">>, <<"5","0">>, <<"9","9">>, <<"2","0","2">>, <<"2","0","2","4","5">>}
TailTexts == {<<>>, <<"x">>, <<" ">>, <<" ","1","2",":","0","0">>}

DateTexts ==
    {d \o <<".">> \o m \o <<".">> \o y \o t :
        d \in DayTexts, m \in MonthTexts, y \in YearTexts, t \in TailTexts}
    \cup {i \o t : i \in {<<"1","9","7","5","-","0","6","-","0","1">>, <<"2","0","2","4","-","0","3","-","0","5">>, <<"2","0","2","4","-","3","-","0","5">>, <<"2","4","-","0","3","-","0","5">>},
                   t \in TailTexts}
    \cup {<<>>, <<" ">>, <<"n","o","t"," ","a"," ","d","a","t","e">>, <<"0","5",".","0","3">>, <<"0","5","/","0","3","/","2","0","2","4">>, <<"0","5",".","0","3",".">>, <<" ","0","5",".","0","3",".","2","0","2","4">>,
          <<"x","0","5",".","0","3",".","2","0","2","4">>, <<".","3",".","2","0","2","4">>, <<"0","0","5",".","0","3",".","2","0","2","4">>}

DateCells == {TextCell(s) : s \in DateTexts} \cup {NaNCell}

\* the alphabet has no character of an exponent, of "inf", "nan" or "_",
\* which ParseFloat does not read
NumberAlphabet == {"1", "2", ".", ",", "-", "a"}

NumberCells ==
    {TextCell(s) : s \in SeqsUpTo(NumberAlphabet, MaxNumLen)
                         \cup {<<"1",".","2","3","4",",","5","6">>, <<"1","2","3","4",",","5","6">>, <<"a","b","c">>, <<" ","7",",","2","5"," ">>, <<"1",".","2","3","4",".","5","6","7",",","8","0">>,
                               <<"1",",","2","3","4",".","5","6">>, <<"+","3",",","5">>, <<"-","2","0",",","0","0">>, <<" ">>}}
    \cup {NaNCell} \cup {NumCell(v) : v \in {0, 123456, 0 - 2000}}

\* column names as exports spell them
ColumnNames ==
    {<<"K","o","n","t","o">>, <<"K","O","N","T","O"," ">>, <<"G","e","g","e","n","k","o","n","t","o">>, <<"B","e","t","r","a","g">>, <<"D","a","t","u","m">>, <<"B","u","c","h","u","n","g","s","d","a","t","u","m">>,
     <<"U","I","D">>, <<"U","m","s","a","t","z">>, <<"F","i","r","m","e","n","n","a","m","e">>, <<"T","e","x","t">>}

ColumnLists == SeqsUpTo(ColumnNames, 3) \ {<<>>}

VariantLists ==
    {FIBU_FIELD_VARIANTS.date, FIBU_FIELD_VARIANTS.account,
     FIBU_FIELD_VARIANTS.amount, WAWI_FIELD_VARIANTS.amount}

store == << companies, inbox, processed, quarantine, file_ingestion_log,
            transactions, suppliers, account_mappings, emissions_records,
            esrs_disclosures, audit_log, report_versions, ingested >>

\* the calls of the helpers: the function and its arguments
HelperCalls ==
    {[op |-> "parse_austrian_date", arg |-> cell] : cell \in DateCells}
    \cup {[op |-> "parse_austrian_number", arg |-> cell] : cell \in NumberCells}
    \cup {[op |-> "detect_file_type", arg |-> columns] : columns \in ColumnLists}
    \cup {[op |-> "find_column", arg |-> columns, variants |-> variants] :
             columns \in ColumnLists, variants \in VariantLists}

\* an empty store and a helper call that has not returned yet
InitHelpers ==
    /\ companies = {}
    /\ inbox = [n \in FileNames |-> NoFile]
    /\ processed = [n \in FileNames |-> NoFile]
    /\ quarantine = [n \in FileNames |-> NoFile]
    /\ file_ingestion_log = EmptyBag
    /\ transactions = EmptyBag
    /\ suppliers = EmptyBag
    /\ account_mappings = EmptyBag
    /\ emissions_records = EmptyBag
    /\ esrs_disclosures = EmptyBag
    /\ audit_log = EmptyBag
    /\ report_versions = EmptyBag
    /\ ingested = {}
    /\ lastOp \in HelperCalls
    /\ result = [status |-> "pending"]

\* the call returns
Returns(value) ==
    /\ result.status = "pending"
    /\ result' = [status |-> "returned", value |-> value]
    /\ UNCHANGED << store, lastOp >>

\* parse_austrian_date(date_str)
NormalizeDate ==
    lastOp.op = "parse_austrian_date" /\ Returns(parse_austrian_date(lastOp.arg))

\* parse_austrian_number(num_str)
NormalizeNumber ==
    lastOp.op = "parse_austrian_number" /\ Returns(parse_austrian_number(lastOp.arg))

\* detect_file_type(df) for a table of the given columns
DetectFileType ==
    lastOp.op = "detect_file_type" /\ Returns(detect_file_type(lastOp.arg))

\* find_column(df_columns, field_variants)
FindColumn ==
    lastOp.op = "find_column" /\ Returns(find_column(lastOp.arg, lastOp.variants))

NextHelpers ==
    \/ NormalizeDate
    \/ NormalizeNumber
    \/ DetectFileType
    \/ FindColumn

SpecHelpers == InitHelpers /\ [][NextHelpers]_vars

\* ------------------------------------------------------------------------
\* Properties of the helpers (checked under SpecHelpers)
\* ------------------------------------------------------------------------
\* the number of indicators that some column name contains, case ignored
C16_Matched(indicators, columns) ==
    Cardinality({i \in 1..Len(indicators) :
                    \E c \in 1..Len(columns) :
                        \E at \in 0..(Len(columns[c]) - Len(indicators[i])) :
                            \A j \in 1..Len(indicators[i]) :
                                LowerChar(columns[c][at + j]) = indicators[i][j]})

\* C16: detect_file_type returns a family only when that family matches at
\* least two of its indicators; when both families match at least two, or
\* neither does, it returns UNKNOWN (for which ingest_file runs the ledger
\* parser, see C16_UnknownRunsLedgerParser)
C16_FamilyNeedsClearScore ==
    (lastOp.op = "detect_file_type" /\ result.status = "returned")
    => LET fibu == C16_Matched(fibu_indicators, lastOp.arg) >= 2
           wawi == C16_Matched(wawi_indicators, lastOp.arg) >= 2
       IN  result.value = IF fibu /\ ~wawi THEN "FIBU"
                          ELSE IF wawi /\ ~fibu THEN "WAWI"
                          ELSE "UNKNOWN"

\* the second half of C16, under SpecIngest: a table of type UNKNOWN goes
\* through ingest_fibu, which shows in the result keys and in the error of
\* the ledger parser
C16_UnknownRunsLedgerParser ==
    [][ ( /\ lastOp'.op = "ingest_file"
          /\ lastOp'.content \notin ingested
          /\ ParseStage[lastOp'.content].sepIx # 0
          /\ detect_file_type(ParseStage[lastOp'.content].df.columns) = "UNKNOWN" )
        => /\ result'.file_type = "UNKNOWN"
           /\ suppliers' = suppliers
           /\ result'.error \in {NULL, "Could not find account number column",
                                 "Could not find amount column"}
      ]_vars

\* the text is day.month.year and nothing else, the day of dl, the month of
\* ml and the year of yl digits
C17_IsDmy(t, dl, ml, yl) ==
    /\ Len(t) = dl + ml + yl + 2
    /\ \A i \in 1..Len(t) :
          IF i = dl + 1 \/ i = dl + ml + 2 THEN t[i] = "." ELSE IsDigit(t[i])

\* the ISO date of such a text, the century given
C17_Iso(t, dl, ml, yl, century) ==
    LET pad(x) == IF Len(x) = 1 THEN <<"0">> \o x ELSE x
    IN  century \o SubSeq(t, dl + ml + 3, dl + ml + yl + 2) \o <<"-">>
        \o pad(SubSeq(t, dl + 2, dl + ml + 1)) \o <<"-">> \o pad(SubSeq(t, 1, dl))

\* what C17 says parse_austrian_date returns for a cell
C17_Expected(cell) ==
    LET t == Strip(cell.s)
        shapes(yl) == {p \in (1..2) \X (1..2) : C17_IsDmy(t, p[1], p[2], yl)}
        p4 == CHOOSE p \in shapes(4) : TRUE
        p2 == CHOOSE p \in shapes(2) : TRUE
    IN  IF cell.na \/ cell.s = <<>> THEN None
        ELSE IF shapes(4) # {} THEN C17_Iso(t, p4[1], p4[2], 4, <<>>)
        ELSE IF shapes(2) # {}
        THEN C17_Iso(t, p2[1], p2[2], 2,
                     IF t[Len(t) - 1] \in {"0", "1", "2", "3", "4"}
                     THEN <<"2","0">> ELSE <<"1","9">>)
        ELSE IF /\ Len(t) = 10
                /\ \A i \in 1..10 : IF i \in {5, 8} THEN t[i] = "-" ELSE IsDigit(t[i])
        THEN t
        ELSE None

\* C17: parse_austrian_date returns the ISO date YYYY-MM-DD for a
\* day.month.year text with a 4-digit year, or with a 2-digit year mapped to
\* 20xx below 50 and to 19xx otherwise (day and month zero-padded), returns
\* an ISO YYYY-MM-DD text unchanged, and returns None for every other shape,
\* texts with characters after the date among them, and for empty or missing
\* input
C17_DateShapes ==
    (lastOp.op = "parse_austrian_date" /\ result.status = "returned")
    => result.value = C17_Expected(lastOp.arg)

\* C17 without the texts that go on after the date: on a text that is a
\* date and nothing else, and on a text that does not begin with a date,
\* the function returns what C17 says
C17_ExactShapesOnly ==
    (/\ lastOp.op = "parse_austrian_date"
     /\ result.status = "returned"
     /\ \/ C17_Expected(lastOp.arg) # None
        \/ lastOp.arg.na
        \/ (DmyMatch(Strip(lastOp.arg.s), 2) = <<>> /\ ~IsoMatch(Strip(lastOp.arg.s))))
    => result.value = C17_Expected(lastOp.arg)

\* what C18 says parse_austrian_number returns for a text, in cents: the
\* dots taken out when the text has both "." and ",", then "," read as the
\* decimal point, 0 when that is not a number
C18_Expected(s) ==
    LET t == Strip(s)
        both == HasChar(".", t) /\ HasChar(",", t)
        u == IF both THEN SelectSeq(t, LAMBDA x : x # ".") ELSE t
        v == [i \in 1..Len(u) |-> IF u[i] = "," THEN "." ELSE u[i]]
    IN  IF t # <<>> /\ ParseFloat(v).ok THEN ParseFloat(v).v ELSE 0

C19_EarliestVariantWins ==
    (lastOp.op = "find_column" /\ result.status = "returned")
    => LET columns == lastOp.arg
           variants == lastOp.variants
           matches(c, v) == Strip(Lower(columns[c])) = Lower(variants[v])
           matched == {v \in 1..Len(variants) : \E c \in 1..Len(columns) : matches(c, v)}
       IN  IF matched = {} THEN result.value = None
           ELSE \E c \in 1..Len(columns), v \in matched :
                   /\ \A w \in matched : v <= w
                   /\ matches(c, v)
                   /\ result.value = columns[c]

\* a later column in another spelling won because its variant comes first
C19_Witness ==
    /\ lastOp.op = "find_column"
    /\ result.status = "returned"
    /\ lastOp.variants = FIBU_FIELD_VARIANTS.date
    /\ lastOp.arg[1] = <<"D","a","t","u","m">>
    /\ Len(lastOp.arg) = 3
    /\ result.value = <<"B","u","c","h","u","n","g","s","d","a","t","u","m">>

\* ------------------------------------------------------------------------
\* Properties of the ingestion log (checked under SpecIngest)
\* ------------------------------------------------------------------------
\* C20: for every file that parses into a table the FileIngestionLog row
\* that ingest_file writes has status "success" if and only if at least one
\* row was valid, otherwise "failed", and records rows_parsed = the number
\* of data rows and the valid and quarantined counts that the family parser
\* returned
C20_LogRowCounts ==
    [][ ( /\ lastOp'.op = "ingest_file"
          /\ lastOp'.content \notin ingested
          /\ \E i \in 1..Len(Delimiters) :
                LET df == read_csv(lastOp'.content, Delimiters[i])
                IN  ~df.raised /\ Len(df.columns) > 2 )
        => LET family == FamilyStage[lastOp'.content][lastOp'.file][lastOp'.company_id]
               added == file_ingestion_log' (-) file_ingestion_log
           IN  /\ BagCardinality(added) = 1
               /\ \A l \in BagToSet(added) :
                     /\ l.file_hash = compute_file_hash(lastOp'.file, lastOp'.content)
                     /\ l.rows_parsed = Len(Catalogue[lastOp'.content].lines) - 1
                     /\ l.rows_valid = family.rows_valid
                     /\ l.rows_quarantined = family.rows_quarantined
                     /\ l.rows_valid = result'.rows_valid
                     /\ l.rows_quarantined = result'.rows_quarantined
                     /\ (l.status = "success") = (l.rows_valid > 0)
                     /\ (l.status = "failed") = (l.rows_valid = 0)
      ]_vars

\* a ledger without amount column was logged as failed with its one data
\* row counted as parsed and none as valid
C20_Witness ==
    /\ lastOp.op = "ingest_file"
    /\ lastOp.content = "k_noamount"
    /\ \E l \in BagToSet(file_ingestion_log) :
          /\ l.file_hash = compute_file_hash(lastOp.file, lastOp.content)
          /\ l.status = "failed"
          /\ l.rows_parsed = 1
          /\ l.rows_valid = 0
          /\ l.rows_quarantined = 0

\* ------------------------------------------------------------------------
\* Properties of the writes of ingest_file (checked under SpecIngest)
\* ------------------------------------------------------------------------
\* the rows that a step added to a table
C21_AddedRows(before, after) == after (-) before

\* C21: every ingest_file call that is not a duplicate writes one
\* FileIngestionLog row for the hash of the file and one AuditLog entry
\* "file_ingested" for the file, on the failure paths (parse failure,
\* missing mandatory column, zero valid rows) as on the success path
C21_LogAndAuditOnEveryPath ==
    [][ ( /\ lastOp'.op = "ingest_file"
          /\ result'.status # "duplicate" )
        => /\ BagCardinality(C21_AddedRows(file_ingestion_log, file_ingestion_log')) = 1
           /\ \A l \in BagToSet(C21_AddedRows(file_ingestion_log, file_ingestion_log')) :
                 l.file_hash = compute_file_hash(lastOp'.file, lastOp'.content)
           /\ BagCardinality(C21_AddedRows(audit_log, audit_log')) = 1
           /\ \A a \in BagToSet(C21_AddedRows(audit_log, audit_log')) :
                 a.action = "file_ingested" /\ a.resource_id = lastOp'.file
      ]_vars

\* the same for the calls that get past the delimiter loop: the log row and
\* the audit entry are written whatever the family parser returned
C21_LogAndAuditPastDelimiterLoop ==
    [][ ( /\ lastOp'.op = "ingest_file"
          /\ result'.status # "duplicate"
          /\ ParseStage[lastOp'.content].sepIx # 0 )
        => /\ BagCardinality(C21_AddedRows(file_ingestion_log, file_ingestion_log')) = 1
           /\ BagCardinality(C21_AddedRows(audit_log, audit_log')) = 1
           /\ \A a \in BagToSet(C21_AddedRows(audit_log, audit_log')) :
                 a.action = "file_ingested" /\ a.resource_id = lastOp'.file
      ]_vars

\* ------------------------------------------------------------------------
\* Properties of the disclosure records (checked under Spec)
\* ------------------------------------------------------------------------
\* the EsrsDisclosure rows of a company for a standard reference, as a bag
C22_Rows(discs, company_id, ref) ==
    [d \in {x \in BagToSet(discs) :
               x.company_id = company_id /\ x.standard_ref = ref} |-> discs[d]]

ReasonContents == {"k_blanks", "k_ws", "k_y24"}

\* the ingestion agent over those ledgers
NextReasons ==
    \/ CreateCompany
    \/ \E n \in FileNames, k \in ReasonContents : DropFile(n, k)
    \/ \E n \in FileNames, c \in CompanyIds : IngestFile(n, c)
    \/ \E c \in CompanyIds : IngestInbox(c)

SpecReasons == Init /\ [][NextReasons]_vars

\* for every content the row indices whose account field is empty after
\* stripping, under the account column of the ledger parser
C23_Quarantined ==
    [ k \in Contents |->
        LET df == ParseStage[k].df
            col_account == find_column(df.columns, FIBU_FIELD_VARIANTS.account)
        IN  {idx \in 0..(Len(df.rows) - 1) : RowQuarantined(df, idx, col_account)} ]

\* the returned dictionary r against the set bad of quarantined row indices
C23_ReasonsOf(bad, r) ==
    /\ r.rows_quarantined = Cardinality(bad)
    /\ r.rows_valid + r.rows_quarantined = r.rows_total
    /\ Len(r.quarantine_reasons) = Min(20, Cardinality(bad))
    /\ \A i \in 1..Len(r.quarantine_reasons) :
          /\ r.quarantine_reasons[i].row - 2 \in bad
          /\ Cardinality({b \in bad : b < r.quarantine_reasons[i].row - 2}) = i - 1
          /\ r.quarantine_reasons[i].reason = "missing account number"

\* C23: the quarantine reasons that ingest_file returns for a ledger file
\* are the reasons of the first min(20, rows_quarantined) quarantined rows
\* in row order, each naming its row by the 1-based file line (row index +
\* 2), while rows_quarantined counts every quarantined row
C23_FirstTwentyReasons ==
    [][ ( /\ lastOp'.op = "ingest_file"
          /\ "quarantine_reasons" \in result'.keys )
        => C23_ReasonsOf(C23_Quarantined[lastOp'.content], result')
      ]_vars

\* the ledger with more than twenty blank-account rows was ingested: every
\* such row is counted, twenty reasons are returned, the first for file
\* line 2 and the last for file line 22, the booked row of line 3 skipped
C23_Witness ==
    /\ lastOp.op = "ingest_file"
    /\ lastOp.content = "k_blanks"
    /\ result.status = "success"
    /\ result.rows_quarantined = MaxBlankRows
    /\ result.rows_quarantined > 20
    /\ result.rows_valid = 1
    /\ Len(result.quarantine_reasons) = 20
    /\ result.quarantine_reasons[1].row = 2
    /\ result.quarantine_reasons[2].row = 4
    /\ result.quarantine_reasons[20].row = 22

\* ------------------------------------------------------------------------
\* Properties of the whole pipeline with the report (checked under
\* SpecReport)
\* ------------------------------------------------------------------------
\* ledgers booked in 2023 and in 2024
ReportContents == {"k_ws", "k_y24"}

\* run_pipeline.main with the report: ingestion, mapping, emissions without
\* a period argument, gap audit and report of one company
NextReport ==
    \/ (companies = {} /\ CreateCompany)
    \/ \E k \in ReportContents : DropFile(PipelineFile, k)
    \/ IngestInbox(PipelineCompany)
    \/ MapAccountsAuto(PipelineCompany)
    \/ CalculateEmissions(PipelineCompany, None)
    \/ RunGapAudit(PipelineCompany)
    \/ GenerateReport(PipelineCompany)

SpecReport == Init /\ [][NextReport]_vars

\* C24: Transaction rows are created only by ingestion and are never
\* changed or deleted afterwards: every step keeps every Transaction row
\* with its fields, and a step of account mapping, calculate_emissions, the
\* gap audit or report generation leaves the table as it was
C24_TransactionsOnlyIngested ==
    [][ /\ transactions \sqsubseteq transactions'
        /\ lastOp'.op \notin {"ingest_file", "ingest_all_from_inbox"}
              => transactions' = transactions
        /\ \A t \in BagToSet(transactions' (-) transactions) :
              /\ lastOp'.op = "ingest_all_from_inbox"
              /\ t.company_id = lastOp'.company_id
              /\ \E i \in 1..Len(lastOp'.listing) :
                    t.source_file = lastOp'.listing[i].file
      ]_vars

\* mapping, calculation and report have run over the rows of two ingested
\* ledgers, which are all still there
C24_Witness ==
    /\ lastOp.op = "generate_report"
    /\ BagCardinality(file_ingestion_log) = 2
    /\ BagCardinality(transactions) = 3
    /\ account_mappings # EmptyBag
    /\ emissions_records # EmptyBag
    /\ esrs_disclosures # EmptyBag
    /\ report_versions # EmptyBag

\* ------------------------------------------------------------------------
\* Commit points.  ingest_file and calculate_emissions commit more than once
\* per call: the family parser commits its rows (ingest_fibu, ingest_wawi:
\* session.commit()) before ingest_file adds the log row, and
\* calculate_emissions commits the deletion before it inserts.  The actions
\* below take one step per commit, so that every state is a committed state
\* of the store; a call can fail between two commits.  lastOp.phase is the
\* position of the call, lastOp.pending what the whole call computes.
\* ------------------------------------------------------------------------
\* the number of Transaction and Supplier rows up to which an ingestion
\* fails midway
MaxCrashRows == 2

\* no call is between two of its commits
Idle ==
    ~("phase" \in DOMAIN lastOp /\ lastOp.phase \in {"parsed", "deleted", "inserted"})

\* ingest_file up to the commit of the family parser; r is what the whole
\* call computes.  The duplicate, the parse failure and the missing column
\* have one commit at most and return in the same step.
IngestBeginDone(n, company_id, r) ==
    /\ BagCardinality(r.db.file_ingestion_log) <= MaxLog
    /\ transactions' = r.db.transactions
    /\ suppliers' = r.db.suppliers
    /\ IF "rows_quarantined" \in r.result.keys
       THEN /\ UNCHANGED << file_ingestion_log, audit_log >>
            /\ result' = [status |-> "running"]
            /\ lastOp' = [op |-> "ingest_file", file |-> n, content |-> inbox[n],
                          company_id |-> company_id, phase |-> "parsed",
                          pending |-> r]
       ELSE /\ file_ingestion_log' = r.db.file_ingestion_log
            /\ audit_log' = r.db.audit_log
            /\ result' = r.result
            /\ lastOp' = [op |-> "ingest_file", file |-> n, content |-> inbox[n],
                          company_id |-> company_id, phase |-> "returned"]

IngestBegin(n, company_id) ==
    /\ Idle
    /\ inbox[n] # NoFile
    /\ company_id \in companies
    /\ IngestBeginDone(n, company_id, ingest_file(IngestDb, n, inbox[n], company_id))
    /\ ingested' = ingested \cup {inbox[n]}
    /\ UNCHANGED << companies, inbox, processed, quarantine, account_mappings,
                    emissions_records, esrs_disclosures, report_versions >>

\* step 6 of ingest_file: the log row and the audit entry, committed
\* together by log_audit, and the return
IngestLog ==
    /\ lastOp.op = "ingest_file"
    /\ "phase" \in DOMAIN lastOp
    /\ lastOp.phase = "parsed"
    /\ file_ingestion_log' = lastOp.pending.db.file_ingestion_log
    /\ audit_log' = lastOp.pending.db.audit_log
    /\ result' = lastOp.pending.result
    /\ lastOp' = [op |-> "ingest_file", file |-> lastOp.file,
                  content |-> lastOp.content, company_id |-> lastOp.company_id,
                  phase |-> "returned"]
    /\ UNCHANGED << companies, inbox, processed, quarantine, transactions,
                    suppliers, account_mappings, emissions_records,
                    esrs_disclosures, report_versions, ingested >>

\* the call ends between the commit of the rows and step 6 (os.path.getsize
\* raises, the database is locked, the process is stopped)
IngestFail ==
    /\ lastOp.op = "ingest_file"
    /\ "phase" \in DOMAIN lastOp
    /\ lastOp.phase = "parsed"
    /\ BagCardinality(transactions) + BagCardinality(suppliers) <= MaxCrashRows
    /\ result' = [status |-> "raised"]
    /\ lastOp' = [op |-> "ingest_file", file |-> lastOp.file,
                  content |-> lastOp.content, company_id |-> lastOp.company_id,
                  phase |-> "failed"]
    /\ UNCHANGED << companies, inbox, processed, quarantine, file_ingestion_log,
                    transactions, suppliers, account_mappings, emissions_records,
                    esrs_disclosures, audit_log, report_versions, ingested >>

\* the EmissionRecords of a company and period, as a bag
PeriodRecords(records, company_id, period) ==
    [e \in {x \in BagToSet(records) : x.company_id = company_id /\ x.period = period}
        |-> records[e]]

\* calculate_emissions up to the commit of the deletion; r is what the
\* whole call computes.  A call that returns an error changes nothing.
CalcBeginDone(company_id, period, r) ==
    IF "error" \in r.result.keys
    THEN /\ UNCHANGED << emissions_records, audit_log >>
         /\ result' = r.result
         /\ lastOp' = [op |-> "calculate_emissions", company_id |-> company_id,
                       period |-> period, phase |-> "returned"]
    ELSE /\ CalcAudits < MaxCalcAudit
         /\ emissions_records' =
                DeletePeriod(emissions_records, company_id, r.result.period)
         /\ UNCHANGED audit_log
         /\ result' = [status |-> "running"]
         /\ lastOp' = [op |-> "calculate_emissions", company_id |-> company_id,
                       period |-> period, phase |-> "deleted",
                       old |-> PeriodRecords(emissions_records, company_id,
                                             r.result.period),
                       pending |-> r]

CalcBegin(company_id, period) ==
    /\ Idle
    /\ CalcBeginDone(company_id, period,
           calculate_emissions(
               [ companies |-> companies, account_mappings |-> account_mappings,
                 transactions |-> transactions,
                 emissions_records |-> emissions_records,
                 audit_log |-> audit_log ], company_id, period))
    /\ UNCHANGED << companies, inbox, processed, quarantine, file_ingestion_log,
                    transactions, suppliers, account_mappings, esrs_disclosures,
                    report_versions, ingested >>

\* the loop over PRICE_CONVERSIONS and the commit of the new records
CalcInsert ==
    /\ lastOp.op = "calculate_emissions"
    /\ "phase" \in DOMAIN lastOp
    /\ lastOp.phase = "deleted"
    /\ emissions_records' = lastOp.pending.emissions_records
    /\ lastOp' = [lastOp EXCEPT !.phase = "inserted"]
    /\ UNCHANGED << companies, inbox, processed, quarantine, file_ingestion_log,
                    transactions, suppliers, account_mappings, esrs_disclosures,
                    audit_log, report_versions, ingested, result >>

\* log_audit with its commit, and the return
CalcAudit ==
    /\ lastOp.op = "calculate_emissions"
    /\ "phase" \in DOMAIN lastOp
    /\ lastOp.phase = "inserted"
    /\ audit_log' = lastOp.pending.audit_log
    /\ result' = lastOp.pending.result
    /\ lastOp' = [op |-> "calculate_emissions", company_id |-> lastOp.company_id,
                  period |-> lastOp.period, phase |-> "returned"]
    /\ UNCHANGED << companies, inbox, processed, quarantine, file_ingestion_log,
                    transactions, suppliers, account_mappings, emissions_records,
                    esrs_disclosures, report_versions, ingested >>

\* the call ends after the commit of the deletion or after the commit of
\* the new records (an exception in the loop, the database is locked, the
\* process is stopped)
CalcFail ==
    /\ lastOp.op = "calculate_emissions"
    /\ "phase" \in DOMAIN lastOp
    /\ lastOp.phase \in {"deleted", "inserted"}
    /\ result' = [status |-> "raised"]
    /\ lastOp' = [lastOp EXCEPT !.phase = "failed"]
    /\ UNCHANGED << companies, inbox, processed, quarantine, file_ingestion_log,
                    transactions, suppliers, account_mappings, emissions_records,
                    esrs_disclosures, audit_log, report_versions, ingested >>

\* the files of the runs with commit points: two ledgers and the supplier
\* file
CommitContents == {"k_ws", "k_y24", "k_wawi"}

\* ingestion, mapping and emissions of one company, one step per commit
NextCommits ==
    \/ (Idle /\ companies = {} /\ CreateCompany)
    \/ \E n \in FileNames, k \in CommitContents : Idle /\ DropFile(n, k)
    \/ \E n \in FileNames : IngestBegin(n, PipelineCompany)
    \/ IngestLog
    \/ IngestFail
    \/ (Idle /\ MapAccountsAuto(PipelineCompany))
    \/ \E p \in PeriodArgs : CalcBegin(PipelineCompany, p)
    \/ CalcInsert
    \/ CalcAudit
    \/ CalcFail

SpecCommits == Init /\ [][NextCommits]_vars

\* ------------------------------------------------------------------------
\* Properties of the committed states (checked under SpecCommits)
\* ------------------------------------------------------------------------
\* C25: calculate_emissions commits the deletion of the old EmissionRecords
\* of a (company, period) and the insertion of the new ones as one
\* transaction: in no committed state, the state left by a failure between
\* the two phases included, are the old records gone while the new records
\* are not stored
C25_DeleteInsertOneTransaction ==
    ( /\ lastOp.op = "calculate_emissions"
      /\ "old" \in DOMAIN lastOp )
    => ~( /\ lastOp.old # EmptyBag
          /\ PeriodRecords(lastOp.pending.emissions_records, lastOp.company_id,
                           lastOp.pending.result.period) # EmptyBag
          /\ PeriodRecords(emissions_records, lastOp.company_id,
                           lastOp.pending.result.period) = EmptyBag )

\* ------------------------------------------------------------------------
\* Returned status and logged status (checked under SpecIngest)
\* ------------------------------------------------------------------------
\* C26: the status in the dictionary that ingest_file returns agrees with
\* the status of the FileIngestionLog row the same call wrote: the result
\* says "success" only when the log row says "success", and a file aborted
\* for a missing mandatory column or ending with zero valid rows is returned
\* with a status other than "success"
C26_ReturnedStatusIsLoggedStatus ==
    [][ ( /\ lastOp'.op = "ingest_file"
          /\ result'.status # "duplicate" )
        => /\ \A l \in BagToSet(file_ingestion_log' (-) file_ingestion_log) :
                 (result'.status = "success") = (l.status = "success")
           /\ ( \/ "error" \in result'.keys
                \/ result'.rows_valid = 0 ) => result'.status # "success"
      ]_vars

\* the same for the calls that end with at least one valid row or in the
\* parse failure: there the two statuses agree
C26_StatusAgreesOffTheAbortPaths ==
    [][ ( /\ lastOp'.op = "ingest_file"
          /\ result'.status # "duplicate"
          /\ result'.rows_valid > 0 \/ ParseStage[lastOp'.content].sepIx = 0 )
        => \A l \in BagToSet(file_ingestion_log' (-) file_ingestion_log) :
              result'.status = l.status
      ]_vars

\* the rows staged for a file are in the table only if the hash of the file
\* is logged, and no more often than the file holds them
C27_FileRows(table, staged, logged) ==
    \A i \in 1..Len(staged) :
        CopiesIn(staged[i], table) > 0
            => /\ logged
               /\ CopiesIn(staged[i], table)
                      <= Cardinality({j \in 1..Len(staged) : staged[j] = staged[i]})

\* C27: in every committed state of the store, a state left by a failure in
\* the middle of ingest_file included, the Transaction or Supplier rows of a
\* file are present only if a FileIngestionLog row for the content hash of
\* the file is present too, so that running ingest_file again on the same
\* file after a failure never persists the rows of the file a second time
C27_RowsOnlyWithLogRow ==
    \A n \in FileNames, k \in CommitContents :
        C27_FileRows(IF ParseStage[k].file_type = "WAWI" THEN suppliers
                     ELSE transactions,
                     FamilyStage[k][n][PipelineCompany].staged,
                     HashLogged(file_ingestion_log, compute_file_hash(n, k)))

\* ------------------------------------------------------------------------
\* Ingestion of two companies (checked under SpecIngest)
\* ------------------------------------------------------------------------
\* none of the rows staged for a file of a company is in the store: the
\* company has not ingested the file
C28_NotIngestedBy(staged) ==
    \A i \in 1..Len(staged) :
        staged[i] \notin BagToSet(transactions) \cup BagToSet(suppliers)

\* the call returned r and added the rows that it returns and adds in the
\* run in which no other company has ingested anything (reference)
C28_SameAs(reference, r, added) ==
    /\ r = reference.result
    /\ added = (reference.db.transactions (+) reference.db.suppliers)

\* C28: ingestion for one company does not depend on the ingestions of
\* another company: ingest_file on a file with valid rows, called for a
\* company that has not ingested the file, returns the result and persists
\* the rows that it returns and persists when no file was ingested for any
\* other company
C28_IngestionPerCompany ==
    [][ ( /\ lastOp'.op = "ingest_file"
          /\ ParseStage[lastOp'.content].sepIx # 0
          /\ FamilyStage[lastOp'.content][lastOp'.file][lastOp'.company_id].staged
                 # <<>>
          /\ C28_NotIngestedBy(
                 FamilyStage[lastOp'.content][lastOp'.file][lastOp'.company_id].staged) )
        => C28_SameAs(ingest_file([ file_ingestion_log |-> EmptyBag,
                                    transactions |-> EmptyBag,
                                    suppliers |-> EmptyBag,
                                    audit_log |-> EmptyBag ],
                                  lastOp'.file, lastOp'.content, lastOp'.company_id),
                      result',
                      (transactions' (-) transactions) (+) (suppliers' (-) suppliers))
      ]_vars

\* the same when the content has not been ingested for any company
C28_FirstIngestionOfContent ==
    [][ ( /\ lastOp'.op = "ingest_file"
          /\ lastOp'.content \notin ingested
          /\ ParseStage[lastOp'.content].sepIx # 0
          /\ FamilyStage[lastOp'.content][lastOp'.file][lastOp'.company_id].staged
                 # <<>> )
        => C28_SameAs(ingest_file([ file_ingestion_log |-> EmptyBag,
                                    transactions |-> EmptyBag,
                                    suppliers |-> EmptyBag,
                                    audit_log |-> EmptyBag ],
                                  lastOp'.file, lastOp'.content, lastOp'.company_id),
                      result',
                      (transactions' (-) transactions) (+) (suppliers' (-) suppliers))
      ]_vars

\* ------------------------------------------------------------------------
\* Properties of the account mappings (checked under SpecMapping)
\* ------------------------------------------------------------------------
\* What classify_with_claude may return when the service is free in its
\* answer: json.loads of the reply, whose category is a label of the list,
\* "other" or a label that is not in the list, at a high or a low
\* confidence, and the fallback without an API key
AnyAnswers ==
    { [category |-> c, confidence |-> p, source |-> "claude_api"] :
        c \in {"energy_electricity", "other", "electricity"}, p \in {90, 50} }
    \cup { [category |-> "other", confidence |-> 0, source |-> "no_api_key"] }

\* what is typed at the prompt: Enter, a category of the list, another text
PromptChoices == {DefaultChoice, "fuel", "petrol"}

\* two ledgers with the account 5000
MappingContents == {"k_ws", "k_y24"}

\* ingestion and the two mapping runs for two companies
NextMapping ==
    \/ CreateCompany
    \/ \E k \in MappingContents : DropFile(PipelineFile, k)
    \/ \E c \in CompanyIds : IngestInbox(c)
    \/ \E c \in CompanyIds : MapAccountsAutoFrom(c, AnyAnswers)
    \/ \E c \in CompanyIds : MapAccountsInteractive(c, AnyAnswers, PromptChoices)

SpecMapping == Init /\ [][NextMapping]_vars

\* C29: after any sequence of mapping runs, automatic or interactive, every
\* stored AccountMapping carries a category of ESG_CATEGORIES, whatever
\* label the classifier returned, and each (company, account number) has at
\* most one mapping
C29_MappingsInCategoryList ==
    /\ \A m \in BagToSet(account_mappings) : m.esg_category \in ESG_CATEGORIES
    /\ \A m \in BagToSet(account_mappings) :
          BagCardinality([x \in {y \in BagToSet(account_mappings) :
                                    /\ y.company_id = m.company_id
                                    /\ y.account_number = m.account_number}
                             |-> account_mappings[x]]) = 1

\* the second part alone: one mapping per (company, account number)
C29_OneMappingPerAccount ==
    \A m \in BagToSet(account_mappings) :
        BagCardinality([x \in {y \in BagToSet(account_mappings) :
                                  /\ y.company_id = m.company_id
                                  /\ y.account_number = m.account_number}
                           |-> account_mappings[x]]) = 1

\* ------------------------------------------------------------------------
\* Emission records and the report (checked under SpecReport)
\* ------------------------------------------------------------------------
\* the EmissionRecords of a company, as a bag
C30_Own(records, company_id) ==
    [e \in {x \in BagToSet(records) : x.company_id = company_id} |-> records[e]]

\* C30: after every calculate_emissions call made without a period, every
\* EmissionRecord of the company belongs to the period label derived from
\* the company's current transactions, and the per-scope totals that
\* generate_report sums over all EmissionRecords of the company equal the
\* totals that the call returned; a report generated next shows that period
\* and those totals
C30_RecordsOfDerivedPeriod ==
    [][ /\ ( /\ lastOp'.op = "calculate_emissions"
             /\ result'.status = "complete" )
           => /\ result'.period
                     = DerivedPeriod(SelectedTransactions(transactions',
                                                          lastOp'.company_id, None))
              /\ \A e \in BagToSet(C30_Own(emissions_records', lastOp'.company_id)) :
                    e.period = result'.period
              /\ SumTco2e(C30_Own(emissions_records', lastOp'.company_id), 1)
                     = result'.scope_1_tco2e
              /\ SumTco2e(C30_Own(emissions_records', lastOp'.company_id), 2)
                     = result'.scope_2_tco2e
              /\ SumTco2e(C30_Own(emissions_records', lastOp'.company_id), 3)
                     = result'.scope_3_tco2e
        /\ ( /\ lastOp.op = "calculate_emissions"
             /\ result.status = "complete"
             /\ lastOp'.op = "generate_report" )
           => /\ result'.document.period = result.period
              /\ result'.document.scope_totals[1] = result.scope_1_tco2e
              /\ result'.document.scope_totals[2] = result.scope_2_tco2e
              /\ result'.document.scope_totals[3] = result.scope_3_tco2e
      ]_vars

\* the same while all transactions of the company carry one year: then a
\* recalculation replaces the records of the one period there is
C30_SinglePeriod ==
    [][ ( /\ lastOp'.op = "calculate_emissions"
          /\ result'.status = "complete"
          /\ Cardinality({SubSeq(t.date, 1, 4) : t \in BagToSet(transactions')}) = 1 )
        => /\ \A e \in BagToSet(C30_Own(emissions_records', lastOp'.company_id)) :
                 e.period = result'.period
           /\ SumTco2e(C30_Own(emissions_records', lastOp'.company_id), 2)
                  = result'.scope_2_tco2e
      ]_vars

====
